---- MODULE Spec2Model ----
(***************************************************************************)
(* A model of the telphi softphone SDK: the Janus signaling core           *)
(* (useSendMessage, useHandleMessage, useInitJanus, useHandleSipEvent,     *)
(* useHandleRemoteTrickle/Jsep, useAddIceCandidate, useCleanupCall,        *)
(* useCleanupJanus, useMakeCall, WebRTCPhone.handleHangup) and the call    *)
(* channel hook (useCallChannel).                                          *)
(*                                                                         *)
(* JavaScript is single-threaded: one action of the model is one macrotask *)
(* (an event handler, a timer callback, a public function call) together   *)
(* with the microtasks (promise continuations) it triggers.  Handlers are  *)
(* written as operators from state to state so that a handler can call     *)
(* another one the way the code does.                                      *)
(***************************************************************************)
EXTENDS Integers, Sequences, FiniteSets, TLC

VARIABLES
    ch,     \* the state of one useCallChannel hook instance and its sockets
    st      \* webrtcRefs, the phone store, sessionStorage and the host engine

vars == <<ch, st>>

(***************************************************************************)
(*                          THE CALL CHANNEL                               *)
(***************************************************************************)

\* Number of channel sockets the hook may create in one behaviour.
MaxChWs == 2
\* Handler invocations in flight at a time (re-deliveries included).
MaxDeliver == 1
\* Cap of the per-action counter of terminal results that were sent.
MaxFinal == 2
\* Distinct server message identifiers.
MaxMsgId == 2
\* Cap of the chat history length.
MaxChat == 1
\* Cap of the number of armed reconnect timers no ref points to any more.
MaxLeak == 1

ChSockets == 1..MaxChWs
\* The action identifiers the server uses: the hook keeps no state per
\* action, so one identifier shows all of its behaviour.
ActionIds == {1}
MsgIds == 1..MaxMsgId

\* Close codes the environment reports: normal, superseded, the borders and
\* the middle of the client-error range, abnormal closure, and neighbours.
CloseCodes == {1000, 1006, 4000, 4001, 4050, 4099, 4100}

\* The handler's outcomes: a SyncActionResult, an AsyncActionResult, a throw.
HandlerResults == {"sync_ok", "sync_fail", "async", "throw"}

\* The hook after its first render; ar is the autoReconnect option.
ChInitial(ar) ==
         [ mounted          |-> TRUE,
           autoReconnect    |-> ar,
           creds            |-> 0,
           connectionState  |-> "disconnected",
           textChatEnabled  |-> FALSE,
           lastError        |-> FALSE,
           messages         |-> 0,
           wsRef            |-> 0,
           rtRef            |-> 0,
           rtLeaked         |-> 0,
           pingTimerRef     |-> 0,
           pingTimers       |-> {},
           lastMessageId    |-> 0,
           lastFrom         |-> 0,
           sock             |-> [w \in ChSockets |-> "free"],
           nextWs           |-> 1,
           pending          |-> [a \in ActionIds |-> [rr \in BOOLEAN |-> 0]],
           out              |-> << >>,
           ev               |-> [type |-> "init", code |-> 0],
           nFinal           |-> [a \in ActionIds |-> 0],
           asyncCalled      |-> [a \in ActionIds |-> FALSE],
           otherReturn      |-> [a \in ActionIds |-> FALSE] ]

\* Every action first empties the per-step output and names itself.
chStep(s, type, code) ==
    [s EXCEPT !.out = << >>, !.ev = [type |-> type, code |-> code]]

updateConnectionState(s, state) ==
    IF ~s.mounted THEN s ELSE [s EXCEPT !.connectionState = state]

handleError(s) ==
    IF ~s.mounted THEN s ELSE [s EXCEPT !.lastError = TRUE]

\* WebSocket.close(): a socket that is connecting or open starts closing.
wsClose(state) ==
    IF state \in {"connecting", "open"} THEN "closing" ELSE state

\* The wire messages of utils/channel.ts, reduced to the fields the claims
\* read: every constructor stamps a fresh id, which the model leaves out.
\* In a result, `data` says whose data and error fields it carries (those of
\* the handler's result, or the message of what the handler threw) and
\* `durationMs` whether the elapsed time is in it.
createActionResultMessage(actionId, success, data, durationMs) ==
    [type |-> "action_result", actionId |-> actionId, status |-> "none",
     success |-> success, isFinal |-> TRUE,
     data |-> data, durationMs |-> durationMs]

createActionAckMessage(actionId, status) ==
    [type |-> "action_result", actionId |-> actionId, status |-> status,
     success |-> TRUE, isFinal |-> FALSE]

createAsyncActionResultMessage(actionId, success) ==
    [type |-> "action_result", actionId |-> actionId,
     status |-> IF success THEN "completed" ELSE "failed",
     success |-> success, isFinal |-> TRUE]

createReconnectMessage(lastMessageId) ==
    [type |-> "reconnect", actionId |-> 0, status |-> "none",
     success |-> TRUE, isFinal |-> FALSE, lastMessageId |-> lastMessageId]

createPingMessage ==
    [type |-> "ping", actionId |-> 0, status |-> "none",
     success |-> TRUE, isFinal |-> FALSE]

\* What a send on the wire leaves in the history of the model.
wireSend(s, m) ==
    LET fin == m.type = "action_result" /\ m.isFinal
    IN  [s EXCEPT !.out = Append(@, m),
                  !.nFinal = IF fin
                             THEN [@ EXCEPT ![m.actionId] =
                                       IF @ < MaxFinal THEN @ + 1 ELSE @]
                             ELSE @]

sendRawMessage(s, m) ==
    IF s.wsRef = 0 \/ s.sock[s.wsRef] # "open" THEN s ELSE wireSend(s, m)

clearReconnectTimer(s) == [s EXCEPT !.rtRef = 0]

clearPingTimer(s) ==
    IF s.pingTimerRef = 0 THEN s
    ELSE [s EXCEPT !.pingTimers = @ \ {s.pingTimerRef}, !.pingTimerRef = 0]

closeCurrentSocket(s) ==
    IF s.wsRef = 0 THEN s
    ELSE [s EXCEPT !.sock[s.wsRef] = wsClose(@), !.wsRef = 0]

\* connect(); ctorOk is whether `new WebSocket(url)` returns or throws.
connect(s, ctorOk) ==
    IF s.creds = 0 THEN s
    ELSE LET s1 == clearPingTimer(closeCurrentSocket(clearReconnectTimer(s)))
             s2 == updateConnectionState(s1, "connecting")
         IN  IF ctorOk
             THEN [s2 EXCEPT !.sock[s.nextWs] = "connecting",
                             !.wsRef = s.nextWs,
                             !.nextWs = @ + 1]
             ELSE updateConnectionState(handleError(s2), "disconnected")

disconnect(s) ==
    LET s1 == closeCurrentSocket(clearPingTimer(clearReconnectTimer(s)))
        s2 == updateConnectionState(s1, "disconnected")
    IN  [s2 EXCEPT !.textChatEnabled = FALSE, !.lastMessageId = 0,
                   !.lastFrom = 0]

\* ws.onopen of socket w.
onopen(s, w) ==
    IF ~s.mounted THEN s
    ELSE LET s1 == [updateConnectionState(s, "connected") EXCEPT !.lastError = FALSE]
             s2 == IF s1.lastMessageId # 0
                   THEN wireSend(s1, createReconnectMessage(s1.lastMessageId))
                   ELSE s1
         IN  [s2 EXCEPT !.pingTimerRef = w, !.pingTimers = @ \cup {w}]

\* The range test with its upper border left out.
NoReconnectCode_openRange(code) ==
    code = 1000 \/ code = 4000 \/ (code >= 4001 /\ code < 4099)

NoReconnectCode(code) ==
    code = 1000 \/ code = 4000 \/ (code >= 4001 /\ code <= 4099)

\* callId and wsToken are those of the closure of connect(), which returned
\* early had one been missing: both are truthy here.
shouldReconnect(s, code) ==
    s.autoReconnect /\ ~NoReconnectCode(code)

\* The reconnect branch without its setTimeout.
armReconnectTimer_none(s) == s

\* setTimeout overwrites the ref: a timer it pointed to stays armed.
armReconnectTimer(s) ==
    [s EXCEPT !.rtRef = 1,
              !.rtLeaked = IF s.rtRef = 1 THEN @ + 1 ELSE @]

\* ws.onclose of socket w with event.code = code.
onclose(s, code) ==
    IF ~s.mounted THEN s
    ELSE LET s1 == [clearPingTimer(s) EXCEPT !.textChatEnabled = FALSE]
         IN  IF shouldReconnect(s1, code)
             THEN armReconnectTimer(updateConnectionState(s1, "reconnecting"))
             ELSE updateConnectionState(s1, "disconnected")

\* The cleanup of the [callId, wsToken] effect.
effectCleanup(s) ==
    closeCurrentSocket(clearPingTimer(clearReconnectTimer(s)))

\* The [callId, wsToken] effect after the props changed from s.creds to c.
credsEffect(s, c, ctorOk) ==
    LET isNewCall == c # 0 /\ s.creds # 0 /\ s.creds # c
        s1 == [effectCleanup(s) EXCEPT !.creds = c]
        s2 == IF isNewCall THEN [s1 EXCEPT !.messages = 0, !.lastMessageId = 0,
                                           !.lastFrom = 0]
              ELSE s1
    IN  IF c # 0 /\ (s2.wsRef = 0 \/ s2.sock[s2.wsRef] = "closed")
        THEN connect(s2, ctorOk)
        ELSE s2

\* handleMessage up to the first await: kind is message.type, with "bad"
\* for a frame JSON.parse rejects.
handleMessage(s, kind, mid, aid, rr, statusState) ==
    IF ~s.mounted \/ kind = "bad" THEN s
    ELSE LET s1 == [s EXCEPT !.lastMessageId = mid, !.lastFrom = s.creds]
         IN  CASE kind = "chat"   -> [s1 EXCEPT !.messages = @ + 1]
               [] kind = "action" -> [s1 EXCEPT !.pending[aid][rr] = @ + 1]
               [] kind = "status" ->
                    IF statusState = "text_chat_enabled"
                    THEN [s1 EXCEPT !.textChatEnabled = TRUE]
                    ELSE IF statusState = "text_chat_disabled"
                    THEN [s1 EXCEPT !.textChatEnabled = FALSE]
                    ELSE s1
               [] kind = "error"  -> handleError(s1)
               [] OTHER           -> s1

\* The async branch of handleMessage mutated to send a terminal result.
actionDone_finalOnAsync(s, aid, requiresResponse, result) ==
    LET s1 == IF result = "async" THEN s
              ELSE [s EXCEPT !.otherReturn[aid] = TRUE]
    IN  IF ~requiresResponse THEN s1
        ELSE sendRawMessage(s1, createActionResultMessage(
                                    aid, result # "sync_fail", "handler", TRUE))

\* The sync branch of handleMessage mutated to acknowledge first.
actionDone_ackFirst(s, aid, requiresResponse, result) ==
    LET s1 == IF result = "async" THEN s
              ELSE [s EXCEPT !.otherReturn[aid] = TRUE]
        s2 == sendRawMessage(s1, createActionAckMessage(aid, "received"))
    IN  IF ~requiresResponse THEN s1
        ELSE CASE result = "async" -> s2
               [] result = "sync_ok" ->
                    sendRawMessage(s2, createActionResultMessage(
                                           aid, TRUE, "handler", TRUE))
               [] result = "sync_fail" ->
                    sendRawMessage(s2, createActionResultMessage(
                                           aid, FALSE, "handler", TRUE))
               [] OTHER ->
                    sendRawMessage(s1, createActionResultMessage(
                                           aid, FALSE, "thrown", FALSE))

\* handleMessage after `await onAction(message.action)` settled.
actionDone(s, aid, requiresResponse, result) ==
    LET s1 == IF result = "async" THEN s
              ELSE [s EXCEPT !.otherReturn[aid] = TRUE]
    IN  IF ~requiresResponse THEN s1
        ELSE CASE result = "async" ->
                    sendRawMessage(s1, createActionAckMessage(aid, "received"))
               [] result = "sync_ok" ->
                    sendRawMessage(s1, createActionResultMessage(
                                           aid, TRUE, "handler", TRUE))
               [] result = "sync_fail" ->
                    sendRawMessage(s1, createActionResultMessage(
                                           aid, FALSE, "handler", TRUE))
               [] OTHER ->
                    sendRawMessage(s1, createActionResultMessage(
                                           aid, FALSE, "thrown", FALSE))

sendAsyncActionResult(s, aid, success) ==
    LET s1 == [s EXCEPT !.asyncCalled[aid] = TRUE]
    IN  IF s1.creds = 0 THEN s1
        ELSE sendRawMessage(s1, createAsyncActionResultMessage(aid, success))

sendActionProgress(s, aid, status) ==
    IF s.creds = 0 THEN s
    ELSE sendRawMessage(s, createActionAckMessage(aid, status))

----
\* The actions of the channel.

\* The props callId and wsToken change to those of call c in cs, or to none
\* (0).
ChSetCreds(cs) ==
    /\ UNCHANGED st
    /\ \E c \in cs, ok \in BOOLEAN :
            /\ ch.mounted /\ c # ch.creds
            /\ (c # 0 /\ ok) => ch.nextWs <= MaxChWs
            /\ ch' = credsEffect(chStep(ch, "creds", c), c, ok)

ChConnect ==
    /\ UNCHANGED st
    /\ \E ok \in BOOLEAN :
            /\ ch.mounted
            /\ (ch.creds # 0 /\ ok) => ch.nextWs <= MaxChWs
            /\ ch' = connect(chStep(ch, "connect", 0), ok)

ChDisconnect ==
    /\ UNCHANGED st
    /\ ch.mounted
    /\ ch' = disconnect(chStep(ch, "disconnect", 0))

ChUnmount ==
    /\ UNCHANGED st
    /\ ch.mounted
    /\ ch' = effectCleanup([chStep(ch, "unmount", 0) EXCEPT !.mounted = FALSE])

ChSockOpen ==
    /\ UNCHANGED st
    /\ \E w \in ChSockets :
            /\ ch.sock[w] = "connecting"
            /\ ch' = onopen([chStep(ch, "open", 0) EXCEPT !.sock[w] = "open"], w)

ChSockError ==
    /\ UNCHANGED st
    /\ \E w \in ChSockets :
            /\ ch.sock[w] \in {"connecting", "open"}
            /\ ch' = handleError(chStep(ch, "error", 0))

ChSockClose(codes) ==
    /\ UNCHANGED st
    /\ \E w \in ChSockets, code \in codes :
            /\ ch.sock[w] \in {"connecting", "open", "closing"}
            /\ ch.rtRef = 1 => ch.rtLeaked < MaxLeak
            /\ ch' = onclose([chStep(ch, "close", code) EXCEPT !.sock[w] = "closed"], code)

ChReconnectTimerFire ==
    /\ UNCHANGED st
    /\ \E leaked \in BOOLEAN, ok \in BOOLEAN :
            /\ IF leaked THEN ch.rtLeaked > 0 ELSE ch.rtRef = 1
            /\ (ch.mounted /\ ch.creds # 0 /\ ok) => ch.nextWs <= MaxChWs
            /\ LET s1 == chStep(ch, "timer", 0)
                   s2 == IF leaked THEN [s1 EXCEPT !.rtLeaked = @ - 1]
                         ELSE [s1 EXCEPT !.rtRef = 2]
               IN  ch' = IF s2.mounted THEN connect(s2, ok) ELSE s2

ChPingTick ==
    /\ UNCHANGED st
    /\ \E w \in ch.pingTimers :
            /\ ch.sock[w] = "open"
            /\ ch' = wireSend(chStep(ch, "ping", 0), createPingMessage)

InFlight(s) ==
    LET RECURSIVE sum(_)
        sum(S) == IF S = {} THEN 0
                  ELSE LET a == CHOOSE x \in S : TRUE
                       IN  s.pending[a][TRUE] + s.pending[a][FALSE] + sum(S \ {a})
    IN  sum(ActionIds)

ChMessage(kinds, mids) ==
    /\ UNCHANGED st
    /\ \E w \in ChSockets, mid \in mids, aid \in ActionIds, rr \in BOOLEAN,
           statusState \in {"text_chat_enabled", "text_chat_disabled", "other"},
           kind \in kinds :
            /\ ch.sock[w] = "open"
            /\ kind = "chat" => ch.messages < MaxChat
            /\ kind = "action" => InFlight(ch) < MaxDeliver
            /\ kind # "action" => aid = 1 /\ rr
            /\ kind # "status" => statusState = "other"
            /\ ch' = handleMessage(chStep(ch, "message", 0), kind, mid, aid, rr, statusState)

ChActionDone ==
    /\ UNCHANGED st
    /\ \E aid \in ActionIds, rr \in BOOLEAN, result \in HandlerResults :
            /\ ch.pending[aid][rr] > 0
            /\ ch' = actionDone([chStep(ch, result, aid) EXCEPT !.pending[aid][rr] = @ - 1],
                                aid, rr, result)

ChSendAsyncActionResult ==
    /\ UNCHANGED st
    /\ \E aid \in ActionIds, success \in BOOLEAN :
            /\ ch.mounted
            /\ ch' = sendAsyncActionResult(chStep(ch, "sendAsync", aid), aid, success)

ChSendActionProgress ==
    /\ UNCHANGED st
    /\ \E aid \in ActionIds, status \in {"received", "executing"} :
            /\ ch.mounted
            /\ ch' = sendActionProgress(chStep(ch, "progress", aid), aid, status)
\* The connection lifecycle of the channel.
ChLifecycleNext ==
    \/ ChSetCreds(0..2)
    \/ ChConnect
    \/ ChDisconnect
    \/ ChUnmount
    \/ ChSockOpen
    \/ ChSockError
    \/ ChSockClose(CloseCodes)
    \/ ChReconnectTimerFire
    \/ ChPingTick
    \/ ChMessage({"bad", "chat", "status", "control", "pong", "error"}, MsgIds)

\* The action protocol of the channel, over a connection that opens, closes
\* and is re-established.
ChActionNext ==
    \/ ChSetCreds(0..1)
    \/ ChDisconnect
    \/ ChUnmount
    \/ ChSockOpen
    \/ ChSockClose({1000, 1006})
    \/ ChReconnectTimerFire
    \/ ChMessage({"action"}, {1})
    \/ ChActionDone
    \/ ChSendAsyncActionResult
    \/ ChSendActionProgress


----
(***************************************************************************)
(*                       THE JANUS SIGNALING CORE                          *)
(***************************************************************************)

\* Number of gateway sockets initJanus may create in one behaviour.
MaxWs == 2
\* Number of transactions sendMessage may register in one behaviour.
MaxTx == 5
\* Number of makeCall runs (each creates one stream and one connection).
MaxCalls == 1
\* Number of initializeForCall runs.
MaxIfc == 1
\* Number of setRemoteDescription operations in one behaviour.
MaxRd == 1
\* Number of remote trickle frames in one behaviour.
MaxCand == 3
\* Number of reconnectCall runs the 'registered' event may schedule.
MaxResume == 2
\* The clock, in units of 10 s, runs from 0 to MaxNow.
MaxNow == 3
\* MAX_CALL_AGE_MS of loadCallState, in units of 10 s.
MAX_CALL_AGE == 2

JSockets == 1..MaxWs
TxIds == 1..MaxTx
Calls == 1..MaxCalls
RdIds == 1..MaxRd
Ifcs == 1..MaxIfc
Resumes == 1..MaxResume
\* The peer connections (each with its media stream): makeCall run k creates
\* connection k, reconnectCall run r creates connection MaxCalls + r.
Pcs == 1..(MaxCalls + MaxResume)

\* The ids a gateway reply carries in data.id (0: the reply has no data.id).
DataIds == {0, 1}

\* A remote candidate as the trickle frame carries it: n numbers the frames
\* in arrival order, kind is a real candidate, null, or {completed: true}.
CandKinds == {"cand", "null", "completed"}
NoCand == [n |-> 0, kind |-> "none"]

\* A parsed inbound frame: transaction (0 when absent), janus type, the SIP
\* event of plugindata.data ("none" when absent), whether a jsep is attached,
\* the trickle candidate and data.id.
Frame(tx, janus, event, jsep, cand, id) ==
    [tx |-> tx, janus |-> janus, event |-> event, jsep |-> jsep,
     cand |-> cand, id |-> id]

\* (The per-step record also has `status`: the status text the reconnect
\* set last in the step, "none" when it set none.)
\* The promise settled in the last step: its transaction and whether it was
\* resolved (ok) or rejected.
NoSettled == [tx |-> 0, ok |-> FALSE]

\* What is recorded of the frame handled in the last step: whether it carried
\* the id of a transaction settled before, where the router sent it, and the
\* SIP event it was handled as, and the kind of the trickle candidate.
NoRx == [late |-> FALSE, route |-> "no frame", event |-> "none",
         cand |-> "none"]

\* What the frame delivered in the last step was: whether its transaction
\* had a registered resolver, and otherwise the handler its janus type names
\* ("none" for a type without one).  `routes` lists the handlers the router
\* invoked for it, in order.
NoFrame == [registered |-> FALSE, kind |-> "no frame"]

FrameKind(f) ==
    CASE f.janus = "event" /\ f.event # "none" -> "sip"
      [] f.janus = "trickle" -> "trickle"
      [] f.janus = "webrtcup" -> "linkup"
      [] f.janus = "hangup" -> "hangup"
      [] f.janus = "detached" -> "detached"
      [] OTHER -> "none"

\* One entry of the transaction table: the 10 s timer, the awaiting caller
\* (owner and its task), and how often resolve or reject was called.
NoTx == [timer |-> FALSE, owner |-> "none", task |-> 0, settles |-> 0]

\* The dependencies of the refresh effect before any call.
NoDeps == [inCall |-> FALSE, calling |-> FALSE]

\* The PersistedCallState of sessionStorage: whether one is stored, its
\* startedAt and whether it has a telproDomain.
NoPersisted == [present |-> FALSE, startedAt |-> 0, domain |-> FALSE]

\* pendingReconnectRef: whether it holds a state, and that state's domain.
NoPending == [present |-> FALSE, domain |-> FALSE]

\* A reconnectCall run: where it stands, the domain of the state it was
\* scheduled with, and how often its finally block ran.
NoResume == [phase |-> "none", domain |-> FALSE, cleared |-> 0]

StInitial ==
    [ \* webrtcRefs
      wsRef |-> 0, sessionIdRef |-> 0, handleIdRef |-> 0, transactions |-> {},
      initializingRef |-> FALSE, initializedRef |-> FALSE,
      keepAliveRef |-> 0, pcRef |-> 0, localStreamRef |-> 0,
      pendingCandidatesRef |-> << >>, remoteDescriptionSetRef |-> FALSE,
      pendingReconnectRef |-> NoPending, onHangupRef |-> TRUE,
      \* the phone store
      connected |-> FALSE, registered |-> FALSE, calling |-> FALSE,
      inCall |-> FALSE, currentCallId |-> FALSE, currentWsToken |-> FALSE,
      telproDomain |-> FALSE, endpointId |-> FALSE,
      initialized |-> FALSE, reconnecting |-> FALSE, open |-> FALSE,
      \* sessionStorage and the clock
      persisted |-> NoPersisted, now |-> 0,
      \* the timestamp refresh effect: the [inCall, calling] it last ran
      \* with, whether its interval is set, and whether the interval has
      \* refreshed at the present clock value
      rfDeps |-> NoDeps, rfInterval |-> FALSE, rfTicked |-> FALSE,
      \* the host: sockets, timers, pending promises, the WebRTC engine
      mounted |-> TRUE,
      sock |-> [w \in JSockets |-> "free"], handlers |-> {}, nextWs |-> 1,
      init |-> [w \in JSockets |-> "none"],
      tx |-> [t \in TxIds |-> NoTx], nextTx |-> 1,
      kaTimers |-> {},
      rc |-> [r \in Resumes |-> NoResume], nextRc |-> 1,
      ifc |-> [i \in Ifcs |-> [phase |-> "none", initialized |-> FALSE]], nextIfc |-> 1,
      mk |-> [k \in Calls |-> "none"], nextCall |-> 1,
      pc |-> [k \in Pcs |-> "none"], stream |-> [k \in Pcs |-> "none"],
      rd |-> [r \in RdIds |-> 0], nextRd |-> 1,
      flush |-> [r \in RdIds |-> << >>],
      adds |-> << >>, nextCand |-> 1,
      \* history of the run
      addLog |-> << >>, queuedLog |-> << >>, kindLog |-> << >>,
      pcLog |-> << >>, rdApplied |-> {},
      flushLog |-> [r \in RdIds |-> << >>],
      \* what the last step did
      ev |-> "init", rx |-> NoRx, hangupInvoked |-> 0, sent |-> << >>,
      rejected |-> 0, ret |-> "none", logged |-> {}, status |-> "none",
      settled |-> NoSettled, tick |-> 0, frame |-> NoFrame, routes |-> << >>,
      cleanups |-> 0 ]

\* Every action starts from the state with the per-step record cleared.
stStep(s, type) ==
    [s EXCEPT !.ev = type, !.rx = NoRx, !.hangupInvoked = 0, !.sent = << >>,
              !.rejected = 0, !.ret = "none", !.logged = {},
              !.status = "none", !.settled = NoSettled, !.tick = 0,
              !.frame = NoFrame, !.routes = << >>, !.cleanups = 0]

saveCallState(s, domain) ==
    [s EXCEPT !.persisted = [present |-> TRUE, startedAt |-> s.now,
                             domain |-> domain]]

clearCallState(s) == [s EXCEPT !.persisted = NoPersisted]

\* The cleanup routine without the reset of the candidate queue state.
cleanupCall_keepsQueueState(s) ==
    [s EXCEPT !.pc = IF s.pcRef # 0 THEN [@ EXCEPT ![s.pcRef] = "closed"] ELSE @,
              !.pcRef = 0,
              !.stream = IF s.localStreamRef # 0
                         THEN [@ EXCEPT ![s.localStreamRef] = "stopped"] ELSE @,
              !.localStreamRef = 0,
              !.cleanups = IF @ < 2 THEN @ + 1 ELSE @]

\* useCleanupCall: cleanups counts the runs of the routine in the step.
cleanupCall(s) ==
    [s EXCEPT !.pc = IF s.pcRef # 0 THEN [@ EXCEPT ![s.pcRef] = "closed"] ELSE @,
              !.pcRef = 0,
              !.stream = IF s.localStreamRef # 0
                         THEN [@ EXCEPT ![s.localStreamRef] = "stopped"] ELSE @,
              !.localStreamRef = 0,
              !.pendingCandidatesRef = << >>,
              !.remoteDescriptionSetRef = FALSE,
              !.cleanups = IF @ < 2 THEN @ + 1 ELSE @]

\* handleHangup after its await: the store is reset, the call torn down and
\* the persisted call state removed, in one synchronous block.
hangupFinish_keepPersisted(s) ==
    cleanupCall([s EXCEPT !.inCall = FALSE, !.calling = FALSE,
                          !.currentCallId = FALSE, !.currentWsToken = FALSE])

\* handleHangup without the call of the cleanup routine.
hangupFinish_noCleanup(s) ==
    clearCallState(
        [s EXCEPT !.inCall = FALSE, !.calling = FALSE,
                  !.currentCallId = FALSE, !.currentWsToken = FALSE])

hangupFinish(s) ==
    clearCallState(cleanupCall(
        [s EXCEPT !.inCall = FALSE, !.calling = FALSE,
                  !.currentCallId = FALSE, !.currentWsToken = FALSE]))

\* WebSocket.close(): a socket that never opened fails its connection (error
\* and close events follow), an open one starts the closing handshake.
jsClose(state) ==
    CASE state = "connecting" -> "failing"
      [] state = "open" -> "closing"
      [] OTHER -> state

\* cleanupJanus without the reset of the session and handle ids.
cleanupJanus_keepsIds(s) ==
    LET s1 == cleanupCall(s)
    IN  [s1 EXCEPT !.kaTimers = @ \ {s1.keepAliveRef},
                   !.keepAliveRef = 0,
                   !.sock = IF s1.wsRef # 0
                            THEN [@ EXCEPT ![s1.wsRef] = jsClose(@)] ELSE @,
                   !.wsRef = 0,
                   !.transactions = {},
                   !.initializingRef = FALSE, !.initializedRef = FALSE,
                   !.connected = FALSE, !.registered = FALSE,
                   !.inCall = FALSE, !.calling = FALSE]

\* useCleanupJanus: the call is cleaned up, the keepalive interval cleared,
\* the socket closed and the refs and the store reset.
cleanupJanus(s) ==
    LET s1 == cleanupCall(s)
    IN  [s1 EXCEPT !.kaTimers = @ \ {s1.keepAliveRef},
                   !.keepAliveRef = 0,
                   !.sock = IF s1.wsRef # 0
                            THEN [@ EXCEPT ![s1.wsRef] = jsClose(@)] ELSE @,
                   !.wsRef = 0,
                   !.sessionIdRef = 0, !.handleIdRef = 0,
                   !.transactions = {},
                   !.initializingRef = FALSE, !.initializedRef = FALSE,
                   !.connected = FALSE, !.registered = FALSE,
                   !.inCall = FALSE, !.calling = FALSE]

\* WebRTCPhone.handleDisconnect after the hangup it awaits when a call is up.
disconnectFinish(s) ==
    [cleanupJanus(s) EXCEPT !.initialized = FALSE, !.open = FALSE]

\* The catch block of initJanus, for the sequence started on socket w.
initFail(s, w) ==
    [s EXCEPT !.init[w] = "failed", !.initializingRef = FALSE]

\* The catch block of makeCall, run k.
makeCallCatch(s, k) ==
    cleanupCall([s EXCEPT !.mk[k] = "failed", !.calling = FALSE,
                          !.currentCallId = FALSE, !.currentWsToken = FALSE])

\* The finally block of reconnectCall, run r.
reconnectFinally(s, r) ==
    [s EXCEPT !.reconnecting = FALSE, !.pendingReconnectRef = NoPending,
              !.rc[r].cleared = IF @ < 2 THEN @ + 1 ELSE @]

\* The catch block of reconnectCall, run r, with the finally block after it.
reconnectCatch(s, r) ==
    reconnectFinally(cleanupCall(clearCallState(
        [s EXCEPT !.rc[r].phase = "failed",
                  !.status = "Reconnect failed"])), r)

\* reconnectCall after the awaited call request: the store is restored.
afterReconnectCall(s, r) ==
    reconnectFinally([s EXCEPT !.rc[r].phase = "done", !.endpointId = TRUE,
                               !.currentCallId = TRUE, !.currentWsToken = TRUE,
                               !.calling = TRUE], r)

\* What the awaiting caller does when its sendMessage promise rejects.
onReject(s, owner, task) ==
    CASE owner \in {"create", "attach", "register"} -> initFail(s, task)
      [] owner = "hangup" -> hangupFinish(s)
      [] owner = "disconnect" -> disconnectFinish(hangupFinish(s))
      [] owner = "call" -> makeCallCatch(s, task)
      [] owner = "recall" -> reconnectCatch(s, task)
      [] OTHER -> s

canSend(s) == s.wsRef # 0 /\ s.sock[s.wsRef] = "open"

\* sendMessage: rejects at once without an open socket; otherwise registers
\* the resolver under a fresh id, arms the 10 s timer and writes the frame
\* with the stored session and handle ids.
sendMessage_registersFirst(s, owner, task) ==
    LET s1 == [s EXCEPT !.tx[s.nextTx] = [timer |-> TRUE, owner |-> owner,
                                          task |-> task, settles |-> 0],
                        !.transactions = @ \cup {s.nextTx},
                        !.nextTx = @ + 1]
    IN  IF ~canSend(s)
        THEN onReject([s1 EXCEPT !.rejected = IF @ < 2 THEN @ + 1 ELSE @],
                      owner, task)
        ELSE [s1 EXCEPT !.sent = Append(@, [janus |-> owner, tx |-> s.nextTx,
                                            session_id |-> s.sessionIdRef,
                                            handle_id |-> s.handleIdRef])]

sendMessage(s, owner, task) ==
    IF ~canSend(s)
    THEN onReject([s EXCEPT !.rejected = IF @ < 2 THEN @ + 1 ELSE @],
                  owner, task)
    ELSE [s EXCEPT !.tx[s.nextTx] = [timer |-> TRUE, owner |-> owner,
                                     task |-> task, settles |-> 0],
                   !.transactions = @ \cup {s.nextTx},
                   !.nextTx = @ + 1,
                   !.sent = Append(@, [janus |-> owner, tx |-> s.nextTx,
                                       session_id |-> s.sessionIdRef,
                                       handle_id |-> s.handleIdRef])]

\* initJanus after the awaited create, attach and register replies.
afterCreate(s, w, id) ==
    sendMessage([s EXCEPT !.sessionIdRef = id,
                          !.kaTimers = @ \cup {w},
                          !.keepAliveRef = w,
                          !.init[w] = "attach"], "attach", w)

\* afterAttach with the register request written before the handle id is
\* stored.
afterAttach_registersFirst(s, w, id) ==
    [sendMessage([s EXCEPT !.init[w] = "register"], "register", w)
        EXCEPT !.handleIdRef = id]

afterAttach(s, w, id) ==
    sendMessage([s EXCEPT !.handleIdRef = id, !.init[w] = "register"],
                "register", w)

afterRegister(s, w) ==
    [s EXCEPT !.initializedRef = TRUE, !.initializingRef = FALSE,
              !.init[w] = "done"]

\* resolve (ok) or reject of the promise of transaction t.  A promise takes
\* its first settlement only; the calls are counted all the same.
settle(s, t, ok, id) ==
    LET o == s.tx[t].owner
        k == s.tx[t].task
        s0 == [s EXCEPT !.tx[t].settles = IF @ < 2 THEN @ + 1 ELSE @]
        s1 == [s0 EXCEPT !.settled = [tx |-> t, ok |-> ok]]
    IN  IF s.tx[t].settles > 0 THEN s0
        ELSE IF ~ok THEN onReject(s1, o, k)
        ELSE CASE o = "create" -> afterCreate(s1, k, id)
               [] o = "attach" -> afterAttach(s1, k, id)
               [] o = "register" -> afterRegister(s1, k)
               [] o = "hangup" -> hangupFinish(s1)
               [] o = "disconnect" -> disconnectFinish(hangupFinish(s1))
               [] o = "call" -> [s1 EXCEPT !.mk[k] = "done"]
               [] o = "recall" -> afterReconnectCall(s1, k)
               [] OTHER -> s1

\* The resolver sendMessage registers: it clears the timer, removes the
\* registration and settles the promise by the frame's janus type.
resolver_keepsTimer(s, t, f) ==
    settle([s EXCEPT !.transactions = @ \ {t}],
           t, f.janus # "error", f.id)

resolver(s, t, f) ==
    settle([s EXCEPT !.tx[t].timer = FALSE, !.transactions = @ \ {t}],
           t, f.janus # "error", f.id)

\* The 10 s timer callback of transaction t.
transactionTimeout_keepsRegistration(s, t) ==
    settle([s EXCEPT !.tx[t].timer = FALSE], t, FALSE, 0)

transactionTimeout(s, t) ==
    settle([s EXCEPT !.tx[t].timer = FALSE, !.transactions = @ \ {t}],
           t, FALSE, 0)

\* The native pc.addIceCandidate calls still running on the connection that
\* pcRef names (the engine works through them in call order).
startNativeAdd(s, c, waiter) ==
    [s EXCEPT !.adds = Append(@, [n |-> c.n, pc |-> s.pcRef, waiter |-> waiter]),
              !.addLog = Append(@, [n |-> c.n, pc |-> s.pcRef, kind |-> c.kind])]

\* useAddIceCandidate up to its await: TRUE when it hands the candidate to
\* the connection and so stays pending, FALSE when it returns at once.
addsNatively_anyCandidate(s, c) == s.pcRef # 0

addsNatively(s, c) == s.pcRef # 0 /\ c.kind = "cand"

addIceCandidate(s, c, waiter) ==
    IF addsNatively(s, c) THEN startNativeAdd(s, c, waiter) ELSE s

\* The for-loop of handleRemoteJsep (flush r) from its current entry on: it
\* runs until an addIceCandidate call stays pending or the entries are used up.
RECURSIVE flushRun(_, _)
flushRun(s, r) ==
    IF s.flush[r] = << >> THEN s
    ELSE LET c == Head(s.flush[r])
             s1 == [s EXCEPT !.flush[r] = Tail(@),
                             !.flushLog[r] = Append(@, c.n)]
         IN  IF addsNatively(s1, c) THEN startNativeAdd(s1, c, r)
             ELSE flushRun(s1, r)

handleRemoteTrickle(s, c) ==
    IF ~s.remoteDescriptionSetRef
    THEN [s EXCEPT !.pendingCandidatesRef = Append(@, c),
                   !.queuedLog = Append(@, c.n)]
    ELSE addIceCandidate(s, c, 0)

\* handleRemoteJsep up to its await: setRemoteDescription r starts on the
\* connection pcRef names, if there is one.
handleRemoteJsep(s) ==
    IF s.pcRef = 0 THEN s
    ELSE [s EXCEPT !.rd[s.nextRd] = s.pcRef, !.nextRd = @ + 1]

\* handleRemoteJsep after the await of setRemoteDescription r.
afterSetRemoteDescription_keepsQueue(s, r, ok) ==
    IF ~ok THEN [s EXCEPT !.rd[r] = 0]
    ELSE LET s1 == [s EXCEPT !.rd[r] = 0, !.remoteDescriptionSetRef = TRUE,
                             !.rdApplied = @ \cup {s.rd[r]}]
         IN  IF Len(s1.pendingCandidatesRef) > 0
             THEN flushRun([s1 EXCEPT !.flush[r] = s1.pendingCandidatesRef], r)
             ELSE s1

afterSetRemoteDescription(s, r, ok) ==
    IF ~ok THEN [s EXCEPT !.rd[r] = 0]
    ELSE LET s1 == [s EXCEPT !.rd[r] = 0, !.remoteDescriptionSetRef = TRUE,
                             !.rdApplied = @ \cup {s.rd[r]}]
         IN  IF Len(s1.pendingCandidatesRef) > 0
             THEN flushRun([s1 EXCEPT !.flush[r] = s1.pendingCandidatesRef,
                                      !.pendingCandidatesRef = << >>], r)
             ELSE s1

\* WebRTCPhone.handleHangup up to its await.
handleHangup(s) ==
    sendMessage([s EXCEPT !.hangupInvoked = @ + 1], "hangup", 0)

\* webrtcRefs.onHangupRef.current?.()
onHangup(s) == IF s.onHangupRef THEN handleHangup(s) ELSE s

handleSipEvent(s, event, jsep) ==
    CASE event = "registered" ->
            LET s1 == [s EXCEPT !.registered = TRUE, !.connected = TRUE]
            IN  IF s.pendingReconnectRef.present
                THEN [s1 EXCEPT !.rc[s.nextRc] =
                                    [phase |-> "timer",
                                     domain |-> s.pendingReconnectRef.domain,
                                     cleared |-> 0],
                                !.nextRc = @ + 1]
                ELSE s1
      [] event = "registration_failed" ->
            clearCallState([s EXCEPT !.registered = FALSE,
                                     !.pendingReconnectRef = NoPending])
      [] event = "calling" -> [s EXCEPT !.calling = TRUE]
      [] event = "progress" -> IF jsep THEN handleRemoteJsep(s) ELSE s
      [] event = "accepted" ->
            LET s1 == [s EXCEPT !.inCall = TRUE, !.calling = FALSE]
            IN  IF jsep THEN handleRemoteJsep(s1) ELSE s1
      [] event \in {"hangup", "declining", "missed"} -> onHangup(s)
      [] OTHER -> s

\* The message handler without the return after the resolver: the frame
\* goes on to the switch on its janus type.
useHandleMessage_fallsThrough(s, f) ==
    LET late == f.tx # 0 /\ s.tx[f.tx].settles > 0
        rx(route) == [late |-> late, route |-> route,
                      event |-> IF route = "sip" THEN f.event ELSE "none",
                      cand |-> IF route = "trickle" THEN f.cand.kind
                               ELSE "none"]
        s0 == IF f.tx # 0 /\ f.tx \in s.transactions
              THEN resolver([s EXCEPT !.rx = rx("resolver"),
                                      !.routes = Append(@, "resolver")], f.tx, f)
              ELSE s
    IN  CASE f.janus = "event" ->
                IF f.event # "none"
                THEN handleSipEvent([s0 EXCEPT !.rx = rx("sip"),
                                               !.routes = Append(@, "sip")],
                                    f.event, f.jsep)
                ELSE [s0 EXCEPT !.rx = rx("none")]
          [] f.janus = "trickle" ->
                handleRemoteTrickle([s0 EXCEPT !.rx = rx("trickle"),
                                               !.routes = Append(@, "trickle")],
                                    f.cand)
          [] f.janus = "webrtcup" ->
                [s0 EXCEPT !.rx = rx("linkup"), !.routes = Append(@, "linkup")]
          [] f.janus = "hangup" ->
                onHangup([s0 EXCEPT !.rx = rx("hangup"),
                                    !.routes = Append(@, "hangup")])
          [] f.janus = "detached" ->
                [s0 EXCEPT !.rx = rx("detached"),
                           !.routes = Append(@, "detached"), !.handleIdRef = 0]
          [] OTHER -> IF s0.routes = << >> THEN [s0 EXCEPT !.rx = rx("none")]
                      ELSE s0

\* The message handler of the gateway socket.
useHandleMessage(s, f) ==
    LET late == f.tx # 0 /\ s.tx[f.tx].settles > 0
        rx(route) == [late |-> late, route |-> route,
                      event |-> IF route = "sip" THEN f.event ELSE "none",
                      cand |-> IF route = "trickle" THEN f.cand.kind
                               ELSE "none"]
    IN  IF f.tx # 0 /\ f.tx \in s.transactions
        THEN resolver([s EXCEPT !.rx = rx("resolver"),
                                !.routes = Append(@, "resolver")], f.tx, f)
        ELSE CASE f.janus = "event" ->
                    IF f.event # "none"
                    THEN handleSipEvent([s EXCEPT !.rx = rx("sip"),
                                                  !.routes = Append(@, "sip")],
                                        f.event, f.jsep)
                    ELSE [s EXCEPT !.rx = rx("none")]
               [] f.janus = "trickle" ->
                    handleRemoteTrickle([s EXCEPT !.rx = rx("trickle"),
                                                  !.routes = Append(@, "trickle")],
                                        f.cand)
               [] f.janus = "webrtcup" ->
                    [s EXCEPT !.rx = rx("linkup"), !.routes = Append(@, "linkup")]
               [] f.janus = "hangup" ->
                    onHangup([s EXCEPT !.rx = rx("hangup"),
                                       !.routes = Append(@, "hangup")])
               [] f.janus = "detached" ->
                    [s EXCEPT !.rx = rx("detached"),
                              !.routes = Append(@, "detached"),
                              !.handleIdRef = 0]
               [] OTHER -> [s EXCEPT !.rx = rx("none")]

\* initJanus up to its first await.  domain: whether a domain is passed in.
initJanus(s, domain) ==
    IF s.initializingRef \/ s.initializedRef THEN s
    ELSE LET s1 == [s EXCEPT !.initializingRef = TRUE]
         IN  IF ~(domain \/ s.telproDomain)
             THEN [s1 EXCEPT !.initializingRef = FALSE]
             ELSE [s1 EXCEPT !.sock[s.nextWs] = "connecting",
                             !.init[s.nextWs] = "connecting",
                             !.wsRef = s.nextWs, !.nextWs = @ + 1]

\* initJanus after the awaited open of socket w: the handlers are set and
\* the create request is sent.
afterOpen(s, w) ==
    sendMessage([s EXCEPT !.handlers = @ \cup {w}, !.init[w] = "create"],
                "create", w)

\* An onclose handler that also nulls the session and handle ids.
onJanusClose_clearsIds(s) ==
    [s EXCEPT !.connected = FALSE, !.registered = FALSE,
              !.kaTimers = @ \ {s.keepAliveRef},
              !.keepAliveRef = 0,
              !.sessionIdRef = 0, !.handleIdRef = 0]

\* The onclose handler initJanus sets on its socket.
onJanusClose(s) ==
    [s EXCEPT !.connected = FALSE, !.registered = FALSE,
              !.kaTimers = @ \ {s.keepAliveRef},
              !.keepAliveRef = 0]

\* The effect of WebRTCPhone on [open, telproDomain, initialized]: it runs
\* after a render in which one of them changed.
openEffect(s) ==
    IF s.open /\ ~s.initialized /\ ~s.initializingRef /\ s.telproDomain
    THEN initJanus([s EXCEPT !.initialized = TRUE], TRUE)
    ELSE s

\* initializeForCall after the awaited token request.  initialized is the
\* value the closure captured when the call started.
afterCallToken(s, i, ok, domain) ==
    LET initialized == s.ifc[i].initialized
        s1 == [s EXCEPT !.ifc[i].phase = "done"]
    IN  IF ~ok THEN [s1 EXCEPT !.calling = FALSE]
        ELSE LET s2 == [s1 EXCEPT !.currentCallId = TRUE, !.currentWsToken = TRUE]
             IN  IF ~domain THEN [s2 EXCEPT !.calling = FALSE]
                 ELSE LET s3 == saveCallState([s2 EXCEPT !.telproDomain = TRUE], TRUE)
                      IN  IF ~initialized /\ ~s3.initializingRef
                          THEN initJanus([s3 EXCEPT !.initialized = TRUE], TRUE)
                          ELSE s3

\* handleDisconnect: hang up first when a call is up, then tear down.
handleDisconnect(s) ==
    IF s.inCall \/ s.calling THEN sendMessage(s, "disconnect", 0)
    ELSE disconnectFinish(s)

\* loadCallState: a stored state older than MAX_CALL_AGE is removed and
\* nothing is returned.
stale(s) == s.now - s.persisted.startedAt > MAX_CALL_AGE

loaded(s) == s.persisted.present /\ ~stale(s)

loadCallState_keepsStale(s) ==
    IF ~s.persisted.present THEN s
    ELSE IF stale(s) THEN [s EXCEPT !.logged = @ \cup {"stale"}]
         ELSE [s EXCEPT !.logged = @ \cup {"loaded"}]

loadCallState(s) ==
    IF ~s.persisted.present THEN s
    ELSE IF stale(s)
         THEN clearCallState([s EXCEPT !.logged = @ \cup {"stale"}])
         ELSE [s EXCEPT !.logged = @ \cup {"loaded"}]

\* updateTimestamp of the refresh effect: the stored state is loaded and,
\* when one is returned, saved again with startedAt set to the clock.
updateTimestamp_blind(s) ==
    [saveCallState(loadCallState(s), s.persisted.domain)
        EXCEPT !.logged = @ \cup {"updated"}]

updateTimestamp(s) ==
    IF loaded(s)
    THEN [saveCallState(loadCallState(s), s.persisted.domain)
             EXCEPT !.logged = @ \cup {"updated"}]
    ELSE loadCallState(s)

\* The effect on [inCall, calling] (useInitJanus and WebRTCPhone hold the
\* same effect; the second copy finds what the first one wrote): the
\* interval of the previous run is cleared; in a call the timestamp is
\* updated at once and the 5 s interval is set.
refreshEffect(s) ==
    LET s1 == [s EXCEPT !.rfDeps = [inCall |-> s.inCall, calling |-> s.calling],
                        !.rfInterval = FALSE, !.rfTicked = FALSE]
    IN  IF ~s.inCall /\ ~s.calling THEN s1
        ELSE [updateTimestamp(s1) EXCEPT !.rfInterval = TRUE,
                                         !.rfTicked = TRUE]

\* restoreFromPersistedState: ret records whether it returns the stored
\* state or nothing.  The stored state carries the endpoint, the call id
\* and the token.
restoreFromPersistedState_keepsReconnecting(s) ==
    LET domain == s.persisted.domain
        s1 == loadCallState(s)
        s2 == [s1 EXCEPT !.reconnecting = TRUE, !.initialized = domain,
                         !.endpointId = TRUE, !.currentCallId = TRUE,
                         !.currentWsToken = TRUE, !.telproDomain = domain]
    IN  IF ~loaded(s) THEN [s1 EXCEPT !.ret = "nothing"]
        ELSE IF ~domain
             THEN [clearCallState(s2) EXCEPT !.logged = @ \cup {"no domain"},
                                             !.ret = "nothing"]
             ELSE [s2 EXCEPT !.ret = "state"]

restoreFromPersistedState(s) ==
    LET domain == s.persisted.domain
        s1 == loadCallState(s)
        s2 == [s1 EXCEPT !.reconnecting = TRUE, !.initialized = domain,
                         !.endpointId = TRUE, !.currentCallId = TRUE,
                         !.currentWsToken = TRUE, !.telproDomain = domain]
    IN  IF ~loaded(s) THEN [s1 EXCEPT !.ret = "nothing"]
        ELSE IF ~domain
             THEN [clearCallState(s2) EXCEPT !.reconnecting = FALSE,
                                             !.logged = @ \cup {"no domain"},
                                             !.ret = "nothing"]
             ELSE [s2 EXCEPT !.ret = "state"]

\* The mount effect of WebRTCPhone: a restored state is kept for the
\* reconnect and initJanus is started with its domain.
mountEffect(s) ==
    LET domain == s.persisted.domain
        s1 == restoreFromPersistedState(s)
    IN  IF s1.ret # "state" THEN s1
        ELSE LET s2 == [s1 EXCEPT !.pendingReconnectRef =
                                      [present |-> TRUE, domain |-> domain]]
             IN  IF domain THEN initJanus(s2, TRUE) ELSE s2

\* reconnectCall(state) of run r up to its first await; without a domain
\* it throws before its try block.
reconnectCall(s, r) ==
    LET s1 == [s EXCEPT !.reconnecting = TRUE, !.status = "Reconnecting..."]
    IN  IF ~s.rc[r].domain THEN [s1 EXCEPT !.rc[r].phase = "thrown"]
        ELSE [cleanupCall(s1) EXCEPT !.rc[r].phase = "media"]

\* reconnectCall after getUserMedia.
afterReconnectMedia(s, r, ok) ==
    IF ~ok THEN reconnectCatch(s, r)
    ELSE [s EXCEPT !.rc[r].phase = "sdp",
                   !.stream[MaxCalls + r] = "live",
                   !.localStreamRef = MaxCalls + r,
                   !.pc[MaxCalls + r] = "live", !.pcRef = MaxCalls + r]

\* reconnectCall after createOffer and setLocalDescription: the call
\* request with the stored call id is sent.
afterReconnectDescription(s, r, ok) ==
    IF ok THEN sendMessage([s EXCEPT !.rc[r].phase = "call"], "recall", r)
    ELSE reconnectCatch(s, r)

\* The Cancel Reconnect button.
cancelReconnect(s) ==
    cleanupCall(clearCallState([s EXCEPT !.pendingReconnectRef = NoPending,
                                         !.reconnecting = FALSE]))

\* ------------------------------------------------------------------------
\* The actions of the Janus core: calls from the UI, socket events, timers
\* and the completions of host promises.

TxAvailable == st.nextTx <= MaxTx

\* initiateCall(params): the pendingCall effect starts initializeForCall,
\* stores the endpoint and opens the dialog.
JInitiateCall ==
    /\ UNCHANGED ch
    /\ st.mounted /\ st.nextIfc <= MaxIfc
    /\ st.nextWs <= MaxWs
    /\ LET s == stStep(st, "initiateCall")
       IN  st' = openEffect(
                    [s EXCEPT !.ifc[s.nextIfc] =
                                  [phase |-> "token", initialized |-> s.initialized],
                              !.nextIfc = @ + 1,
                              !.endpointId = TRUE, !.open = TRUE])

\* The token request of initializeForCall completes.
JCallToken ==
    /\ UNCHANGED ch
    /\ st.nextWs <= MaxWs
    /\ \E i \in Ifcs, ok \in BOOLEAN, domain \in BOOLEAN :
         /\ st.ifc[i].phase = "token"
         /\ ok \/ ~domain
         /\ st' = openEffect(afterCallToken(stStep(st, "callToken"), i, ok, domain))

\* The user opens the dialog again, or minimizes it.
JSetOpen ==
    /\ UNCHANGED ch
    /\ st.mounted /\ st.nextWs <= MaxWs
    /\ \E o \in BOOLEAN :
         /\ o # st.open
         /\ st' = openEffect([stStep(st, "setOpen") EXCEPT !.open = o])

JDisconnect ==
    /\ UNCHANGED ch
    /\ st.mounted /\ st.open /\ TxAvailable
    /\ st' = handleDisconnect(stStep(st, "disconnect"))

\* The component unmounts: cleanupJanus runs and the hangup callback is
\* unregistered.
JUnmount ==
    /\ UNCHANGED ch
    /\ st.mounted
    /\ st' = [cleanupJanus(stStep(st, "unmount")) EXCEPT !.mounted = FALSE,
                                                         !.onHangupRef = FALSE,
                                                         !.rfDeps = NoDeps,
                                                         !.rfInterval = FALSE,
                                                         !.rfTicked = FALSE]

\* The open event of gateway socket w.
JSockOpen ==
    /\ UNCHANGED ch
    /\ TxAvailable
    /\ \E w \in JSockets :
         /\ st.sock[w] = "connecting"
         /\ LET s == [stStep(st, "open") EXCEPT !.sock[w] = "open"]
            IN  st' = IF s.init[w] = "connecting" THEN afterOpen(s, w) ELSE s

\* The connection of socket w fails: its error event (close follows, with
\* no close handler set yet).
JSockError ==
    /\ UNCHANGED ch
    /\ \E w \in JSockets :
         /\ st.sock[w] \in {"connecting", "failing"}
         /\ LET s == [stStep(st, "error") EXCEPT !.sock[w] = "closed"]
            IN  st' = IF s.init[w] = "connecting" THEN initFail(s, w) ELSE s

\* The 10 s connection timer of the initJanus run on socket w.
JConnectTimeout ==
    /\ UNCHANGED ch
    /\ \E w \in JSockets :
         /\ st.init[w] = "connecting"
         /\ st' = initFail(stStep(st, "connectTimeout"), w)

\* The close event of an opened socket w.
JSockClose ==
    /\ UNCHANGED ch
    /\ \E w \in JSockets :
         /\ st.sock[w] \in {"open", "closing"}
         /\ LET s == [stStep(st, "close") EXCEPT !.sock[w] = "closed"]
            IN  st' = IF w \in s.handlers THEN onJanusClose(s) ELSE s

\* The callback of the keepalive interval the initJanus run on socket k
\* started: it writes a keepalive frame with the stored session id and a
\* random transaction to the current socket when that socket is open, and
\* registers nothing.
keepAliveTick(s, k) ==
    IF canSend(s)
    THEN [s EXCEPT !.tick = k,
                   !.sent = Append(@, [janus |-> "keepalive", tx |-> 0,
                                       session_id |-> s.sessionIdRef,
                                       handle_id |-> 0])]
    ELSE [s EXCEPT !.tick = k]

\* 25 s have passed on the keepalive interval k.
JKeepAlive ==
    /\ UNCHANGED ch
    /\ \E k \in st.kaTimers :
         st' = keepAliveTick(stStep(st, "keepalive"), k)

\* The frames a gateway can deliver in state s, out of the selection sel of
\* janus types, SIP events, jsep attachments, data ids, candidate kinds and
\* transactions:
\* a reply or an event, with or without the id of a request sent so far.
Frames(s, sel) ==
    LET T == sel.txs \cap (0..(s.nextTx - 1))
        On(kind) == IF kind \in sel.kinds THEN T ELSE {}
    IN  {Frame(t, j, "none", FALSE, NoCand, 0) :
            t \in T, j \in sel.kinds \ {"success", "event", "trickle"}}
        \cup {Frame(t, "success", "none", FALSE, NoCand, id) :
            t \in On("success"), id \in sel.ids}
        \cup {Frame(t, "event", e, js, NoCand, 0) :
            t \in On("event"), e \in sel.events, js \in sel.jseps}
        \cup {Frame(t, "trickle", "none", FALSE, [n |-> s.nextCand, kind |-> k], 0) :
            t \in IF s.nextCand <= MaxCand THEN On("trickle") ELSE {},
            k \in sel.cands}

\* Whether handling frame f in state s reaches a sendMessage call.
FrameSends(s, f) ==
    IF f.tx # 0 /\ f.tx \in s.transactions
    THEN s.tx[f.tx].owner \in {"create", "attach"} /\ f.janus # "error"
    ELSE \/ f.janus = "hangup"
         \/ f.janus = "event" /\ f.event \in {"hangup", "declining", "missed"}

\* A frame arrives on a socket whose message handler is set.
JMessage(sel) ==
    /\ UNCHANGED ch
    /\ \E w \in st.handlers, f \in Frames(st, sel) :
         /\ st.sock[w] \in {"open", "closing"}
         /\ f.jsep => (f.event \in {"progress", "accepted"} /\ st.nextRd <= MaxRd)
         /\ FrameSends(st, f) => TxAvailable
         /\ (f.event = "registered" /\ st.pendingReconnectRef.present)
                => st.nextRc <= MaxResume
         /\ st' = [useHandleMessage(stStep(st, "message"), f)
                      EXCEPT !.frame =
                                 IF f.tx # 0 /\ f.tx \in st.transactions
                                 THEN [registered |-> TRUE, kind |-> "reply"]
                                 ELSE [registered |-> FALSE,
                                       kind |-> FrameKind(f)],
                             !.nextCand = IF f.janus = "trickle" THEN @ + 1 ELSE @,
                             !.kindLog = IF f.janus = "trickle"
                                         THEN Append(@, f.cand.kind) ELSE @,
                             !.pcLog = IF f.janus = "trickle"
                                       THEN Append(@, st.pcRef) ELSE @]

\* The 10 s timer of transaction t fires.
JTransactionTimeout ==
    /\ UNCHANGED ch
    /\ \E t \in TxIds :
         /\ st.tx[t].timer
         /\ st' = transactionTimeout(stStep(st, "timeout"), t)

\* makeCall() up to its first await (the guards on registered and endpointId
\* passed): run k asks for a token when the store has no call id.
makeCall(s, k) ==
    [s EXCEPT !.calling = TRUE, !.nextCall = @ + 1,
              !.mk[k] = IF ~s.currentCallId THEN "token" ELSE "media"]

\* makeCall after the token request: a failure is only logged.
afterMakeCallToken(s, k, ok, domain) ==
    LET s1 == [s EXCEPT !.mk[k] = "media"]
    IN  IF ~ok THEN s1
        ELSE saveCallState([s1 EXCEPT !.currentCallId = TRUE,
                                      !.currentWsToken = TRUE,
                                      !.telproDomain = @ \/ domain], domain)

\* makeCall after getUserMedia: the stream and a new connection are stored
\* and the offer is requested.
afterUserMedia(s, k, ok) ==
    IF ~ok THEN makeCallCatch(s, k)
    ELSE [s EXCEPT !.mk[k] = "sdp",
                   !.stream[k] = "live", !.localStreamRef = k,
                   !.pc[k] = "live", !.pcRef = k]

\* makeCall after createOffer and setLocalDescription (no program state is
\* written between the two): the call request is sent.
afterLocalDescription(s, k, ok) ==
    IF ok /\ s.telproDomain
    THEN sendMessage([s EXCEPT !.mk[k] = "call"], "call", k)
    ELSE makeCallCatch(s, k)

JMakeCall ==
    /\ UNCHANGED ch
    /\ st.mounted /\ st.nextCall <= MaxCalls
    /\ st.registered /\ st.endpointId
    /\ st' = makeCall(stStep(st, "makeCall"), st.nextCall)

\* The token request of makeCall run k completes.
JMakeCallToken ==
    /\ UNCHANGED ch
    /\ st.nextWs <= MaxWs
    /\ \E k \in Calls, ok \in BOOLEAN, domain \in BOOLEAN :
         /\ st.mk[k] = "token"
         /\ ok \/ ~domain
         /\ st' = openEffect(afterMakeCallToken(
                      stStep(st, "makeCallToken"), k, ok, domain))

\* getUserMedia of makeCall run k completes.
JUserMedia ==
    /\ UNCHANGED ch
    /\ \E k \in Calls, ok \in BOOLEAN :
         /\ st.mk[k] = "media"
         /\ st' = afterUserMedia(stStep(st, "userMedia"), k, ok)

\* createOffer and setLocalDescription of run k complete; a closed
\* connection settles neither.
JLocalDescription ==
    /\ UNCHANGED ch
    /\ TxAvailable
    /\ \E k \in Calls, ok \in BOOLEAN :
         /\ st.mk[k] = "sdp" /\ st.pc[k] = "live"
         /\ st' = afterLocalDescription(stStep(st, "localDescription"), k, ok)

\* setRemoteDescription r completes on its connection (a closed connection
\* settles nothing).
JRemoteDescription ==
    /\ UNCHANGED ch
    /\ \E r \in RdIds, ok \in BOOLEAN :
         /\ st.rd[r] # 0 /\ st.pc[st.rd[r]] = "live"
         /\ st' = afterSetRemoteDescription(stStep(st, "remoteDescription"), r, ok)

Remove(seq, i) == SubSeq(seq, 1, i - 1) \o SubSeq(seq, i + 1, Len(seq))

\* The oldest native addIceCandidate call on a connection completes; the
\* flush loop that awaited it goes on.
JAddCandidate ==
    /\ UNCHANGED ch
    /\ \E i \in 1..Len(st.adds) :
         /\ st.pc[st.adds[i].pc] = "live"
         /\ \A j \in 1..(i - 1) : st.adds[j].pc # st.adds[i].pc
         /\ LET s == [stStep(st, "addCandidate") EXCEPT !.adds = Remove(@, i)]
            IN  st' = IF st.adds[i].waiter # 0 THEN flushRun(s, st.adds[i].waiter)
                      ELSE s

\* WebRTCPhone mounts: the mount effect restores a stored call, and the
\* effect on [open, telproDomain, initialized] runs after it.
JMount ==
    /\ UNCHANGED ch
    /\ ~st.mounted /\ st.nextWs <= MaxWs
    /\ st' = openEffect(mountEffect(
                 [stStep(st, "mount") EXCEPT !.mounted = TRUE, !.open = FALSE,
                                             !.onHangupRef = TRUE]))

\* The 0 ms timer the 'registered' event set runs reconnectCall.
JReconnect ==
    /\ UNCHANGED ch
    /\ \E r \in Resumes :
         /\ st.rc[r].phase = "timer"
         /\ st' = reconnectCall(stStep(st, "reconnect"), r)

\* getUserMedia of reconnectCall run r completes.
JReconnectMedia ==
    /\ UNCHANGED ch
    /\ \E r \in Resumes, ok \in BOOLEAN :
         /\ st.rc[r].phase = "media"
         /\ st' = afterReconnectMedia(stStep(st, "reconnectMedia"), r, ok)

\* createOffer and setLocalDescription of reconnectCall run r complete; a
\* closed connection settles neither.
JReconnectDescription ==
    /\ UNCHANGED ch
    /\ TxAvailable
    /\ \E r \in Resumes, ok \in BOOLEAN :
         /\ st.rc[r].phase = "sdp" /\ st.pc[MaxCalls + r] = "live"
         /\ st' = afterReconnectDescription(
                      stStep(st, "reconnectDescription"), r, ok)

\* The user presses Cancel Reconnect, shown while reconnecting.
JCancelReconnect ==
    /\ UNCHANGED ch
    /\ st.mounted /\ st.open /\ st.reconnecting
    /\ st' = cancelReconnect(stStep(st, "cancelReconnect"))

\* The user presses Hang Up, shown in a call that is neither being set up
\* nor being reconnected.
JHangup ==
    /\ UNCHANGED ch
    /\ st.mounted /\ st.open /\ TxAvailable
    /\ st.inCall /\ ~st.calling /\ ~st.reconnecting
    /\ st' = handleHangup(stStep(st, "hangup"))

\* The host application calls the function of the exported useInitJanus
\* hook with a domain.
JInitJanus ==
    /\ UNCHANGED ch
    /\ st.mounted /\ st.nextWs <= MaxWs
    /\ st' = initJanus(stStep(st, "initJanus"), TRUE)

\* React runs the refresh effect after a render in which inCall or calling
\* changed.
RefreshPending == st.rfDeps # [inCall |-> st.inCall, calling |-> st.calling]

JRefreshEffect ==
    /\ UNCHANGED ch
    /\ st.mounted /\ RefreshPending
    /\ st' = refreshEffect(stStep(st, "refreshEffect"))

\* The 5 s interval of the refresh effect fires.
JRefreshTick ==
    /\ UNCHANGED ch
    /\ st.rfInterval
    /\ st' = [updateTimestamp(stStep(st, "refreshTick")) EXCEPT !.rfTicked = TRUE]

\* Ten seconds pass.  Timers are punctual: a pending effect has run and a
\* set interval has fired before the clock moves on.
JClock ==
    /\ UNCHANGED ch
    /\ st.now < MaxNow
    /\ ~(st.mounted /\ RefreshPending)
    /\ st.rfInterval => st.rfTicked
    /\ st' = [stStep(st, "clock") EXCEPT !.now = @ + 1, !.rfTicked = FALSE]

----
(***************************************************************************)
(*                          THE SPECIFICATIONS                             *)
(***************************************************************************)

ChInit ==
    /\ st = StInitial
    /\ \E ar \in BOOLEAN : ch = ChInitial(ar)

SpecChannel == ChInit /\ [][ChLifecycleNext]_vars

SpecChannelActions == ChInit /\ [][ChActionNext]_vars

\* The phone right after WebRTCPhone mounted with an empty sessionStorage.
JInit ==
    /\ ch = ChInitial(FALSE)
    /\ st = StInitial

\* Initialization: the callers of initJanus, the socket events, the replies
\* to create, attach and register, the timers and teardown.
InitNext ==
    \/ JInitiateCall
    \/ JCallToken
    \/ JSetOpen
    \/ JDisconnect
    \/ JUnmount
    \/ JSockOpen
    \/ JSockError
    \/ JConnectTimeout
    \/ JSockClose
    \/ JMessage([kinds |-> {"success", "error", "event"},
                 events |-> {"registered"},
                 jseps |-> {FALSE}, ids |-> {1}, cands |-> {}, txs |-> 0..MaxTx])
    \/ JTransactionTimeout

SpecInit == JInit /\ [][InitNext]_vars

\* The phone once initialization has succeeded: the state SpecInit
\* reaches by initiateCall, the call token, the open event, the replies to
\* create, attach and register, and the 'registered' event.
StRegistered ==
    LET reply(t) == Frame(t, "success", "none", FALSE, NoCand, 1)
        s1 == [StInitial EXCEPT !.ifc[1].phase = "token", !.nextIfc = 2,
                                !.endpointId = TRUE, !.open = TRUE]
        s2 == afterCallToken(s1, 1, TRUE, TRUE)
        s3 == afterOpen([s2 EXCEPT !.sock[1] = "open"], 1)
        s4 == useHandleMessage(useHandleMessage(useHandleMessage(s3,
                  reply(1)), reply(2)), reply(3))
    IN  stStep(useHandleMessage(s4,
                  Frame(0, "event", "registered", FALSE, NoCand, 0)), "init")

JRegisteredInit ==
    /\ ch = ChInitial(FALSE)
    /\ st = StRegistered

\* A call on the initialized phone: the SIP events, the hangup requests,
\* their replies and timeouts, and teardown.
CallNext ==
    \/ JMessage([kinds |-> {"success", "error", "event", "hangup", "detached"},
                 events |-> {"calling", "accepted", "hangup"},
                 jseps |-> {FALSE}, ids |-> {1}, cands |-> {}, txs |-> 0..MaxTx])
    \/ JTransactionTimeout
    \/ JDisconnect
    \/ JUnmount
    \/ JSockClose

SpecCall == JRegisteredInit /\ [][CallNext]_vars

\* The host fires a timer that stays armed.
SpecCallFair == SpecCall /\ WF_vars(JTransactionTimeout)

\* The phone with a call set up: makeCall has got the microphone, created
\* the connection and sent the call request.
StCalling ==
    stStep(afterLocalDescription(afterUserMedia(makeCall(StRegistered, 1),
                                                1, TRUE), 1, TRUE), "init")

JCallingInit ==
    /\ ch = ChInitial(FALSE)
    /\ st = StCalling

\* The remote ICE candidates of a call: the reply to the call request, the
\* trickle frames, the remote descriptions and the engine's completions.
IceNext ==
    \/ JMessage([kinds |-> {"success", "error"}, events |-> {}, jseps |-> {},
                 ids |-> {1}, cands |-> {}, txs |-> 1..MaxTx])
    \/ JMessage([kinds |-> {"event", "trickle"},
                 events |-> {"progress", "accepted"}, jseps |-> BOOLEAN,
                 ids |-> {}, cands |-> CandKinds, txs |-> {0}])
    \/ JRemoteDescription
    \/ JAddCandidate
    \/ JTransactionTimeout

SpecIce == JCallingInit /\ [][IceNext]_vars

\* makeCall from the registered phone up to the call request.
MakeCallNext ==
    \/ JMakeCall
    \/ JUserMedia
    \/ JLocalDescription
    \/ JMessage([kinds |-> {"success", "error"}, events |-> {}, jseps |-> {},
                 ids |-> {1}, cands |-> {}, txs |-> 1..MaxTx])
    \/ JTransactionTimeout

SpecMakeCall == JRegisteredInit /\ [][MakeCallNext]_vars

\* A page load: WebRTCPhone is not mounted yet, the clock stands anywhere
\* and sessionStorage is empty or holds a call state saved at time 0, with
\* or without a domain.
StUnmounted(now, persisted) ==
    [StInitial EXCEPT !.mounted = FALSE, !.onHangupRef = FALSE,
                      !.now = now, !.persisted = persisted]

JPageLoadInit ==
    /\ ch = ChInitial(FALSE)
    /\ \E now \in 0..MaxNow, present \in BOOLEAN, domain \in BOOLEAN :
         /\ present \/ ~domain
         /\ st = StUnmounted(now, [present |-> present, startedAt |-> 0,
                                   domain |-> domain])

\* Restoring a stored call at mount and the initialization it starts, up to
\* the 'registered' event that schedules reconnectCall.
RestoreNext ==
    \/ JMount
    \/ JSetOpen
    \/ JSockOpen
    \/ JSockError
    \/ JConnectTimeout
    \/ JMessage([kinds |-> {"success", "error", "event"},
                 events |-> {"registered", "registration_failed"},
                 jseps |-> {FALSE}, ids |-> {1}, cands |-> {}, txs |-> 0..MaxTx])
    \/ JTransactionTimeout

SpecRestore == JPageLoadInit /\ [][RestoreNext]_vars

\* The host fires the timers that stay armed: the 10 s connection timer of
\* initJanus and the 10 s timer of a request.
SpecRestoreFair ==
    SpecRestore /\ WF_vars(JConnectTimeout) /\ WF_vars(JTransactionTimeout)

\* The phone that restored a fresh call state at mount and has registered:
\* the 'registered' event has scheduled reconnectCall.
StRestored ==
    LET reply(t) == Frame(t, "success", "none", FALSE, NoCand, 1)
        s0 == StUnmounted(0, [present |-> TRUE, startedAt |-> 0, domain |-> TRUE])
        s1 == mountEffect([s0 EXCEPT !.mounted = TRUE, !.onHangupRef = TRUE])
        s2 == afterOpen([s1 EXCEPT !.sock[1] = "open"], 1)
        s3 == useHandleMessage(useHandleMessage(useHandleMessage(s2,
                  reply(1)), reply(2)), reply(3))
    IN  stStep(useHandleMessage(s3,
                  Frame(0, "event", "registered", FALSE, NoCand, 0)), "init")

JRestoredInit ==
    /\ ch = ChInitial(FALSE)
    /\ st = StRestored

\* A reconnect with everything that can interleave with it: the SIP events,
\* the replies and timeouts, makeCall and the buttons of the dialog.
ResumeNext ==
    \/ JReconnect
    \/ JReconnectMedia
    \/ JReconnectDescription
    \/ JCancelReconnect
    \/ JSetOpen
    \/ JHangup
    \/ JMakeCall
    \/ JUserMedia
    \/ JLocalDescription
    \/ JMessage([kinds |-> {"success", "error", "event"},
                 events |-> {"calling", "ringing", "progress", "accepted",
                             "hangup"},
                 jseps |-> {FALSE}, ids |-> {1}, cands |-> {}, txs |-> 0..MaxTx])
    \/ JTransactionTimeout

SpecResume == JRestoredInit /\ [][ResumeNext]_vars

\* The restored phone with its reconnect under way: reconnectCall has got
\* the microphone, created the connection and sent the call request.
StResuming ==
    stStep(afterReconnectDescription(afterReconnectMedia(
               reconnectCall(StRestored, 1), 1, TRUE), 1, TRUE), "init")

JResumingInit ==
    /\ ch = ChInitial(FALSE)
    /\ st = StResuming

\* The remote descriptions and candidates of the reconnected call, and a
\* makeCall that is started next to it.
MediaNext ==
    \/ JMakeCall
    \/ JUserMedia
    \/ JLocalDescription
    \/ JMessage([kinds |-> {"success", "error"}, events |-> {}, jseps |-> {},
                 ids |-> {1}, cands |-> {}, txs |-> 1..MaxTx])
    \/ JMessage([kinds |-> {"event", "trickle"},
                 events |-> {"progress", "accepted"}, jseps |-> BOOLEAN,
                 ids |-> {}, cands |-> {"cand", "null"}, txs |-> {0}])
    \/ JRemoteDescription
    \/ JAddCandidate

SpecMedia == JResumingInit /\ [][MediaNext]_vars

\* The gateway reports the registration again while the reconnect that the
\* first 'registered' event scheduled is pending or running.
ReregisterNext ==
    \/ JReconnect
    \/ JReconnectMedia
    \/ JReconnectDescription
    \/ JMessage([kinds |-> {"success", "error", "event"},
                 events |-> {"registered"},
                 jseps |-> {FALSE}, ids |-> {1}, cands |-> {}, txs |-> 0..MaxTx])
    \/ JTransactionTimeout

SpecReregister == JRestoredInit /\ [][ReregisterNext]_vars

\* reconnectCall as a function of its argument: it is about to run with the
\* state pendingReconnectRef held at the 'registered' event.  webrtcRefs is
\* exported, so that the state is the restored one or one the host
\* application stored there, with or without a domain.
JResumeAnyInit ==
    /\ ch = ChInitial(FALSE)
    /\ \E domain \in BOOLEAN :
         st = [StRestored EXCEPT !.rc[1].domain = domain,
                                 !.pendingReconnectRef.domain = domain]

ResumeAnyNext ==
    \/ JReconnect
    \/ JReconnectMedia
    \/ JReconnectDescription
    \/ JCancelReconnect
    \/ JSetOpen
    \/ JMessage([kinds |-> {"success", "error", "event"},
                 events |-> {"calling", "accepted", "hangup"},
                 jseps |-> {FALSE}, ids |-> {1}, cands |-> {}, txs |-> 0..MaxTx])
    \/ JTransactionTimeout

SpecResumeAny == JResumeAnyInit /\ [][ResumeAnyNext]_vars

\* Initialization with its failures and the attempts that follow them: the
\* registration may fail, and initJanus is called again.
RecoverNext ==
    \/ JInitiateCall
    \/ JCallToken
    \/ JInitJanus
    \/ JSockOpen
    \/ JSockError
    \/ JConnectTimeout
    \/ JSockClose
    \/ JMessage([kinds |-> {"success", "error", "event"},
                 events |-> {"registered", "registration_failed"},
                 jseps |-> {FALSE}, ids |-> {1}, cands |-> {}, txs |-> 0..MaxTx])
    \/ JTransactionTimeout

SpecRecover == JInit /\ [][RecoverNext]_vars

\* The gateway session: initJanus called by the host, the socket events, the
\* replies to create, attach and register and the timers.
SessionNext ==
    \/ JInitJanus
    \/ JSockOpen
    \/ JSockError
    \/ JConnectTimeout
    \/ JSockClose
    \/ JMessage([kinds |-> {"success", "error", "event"},
                 events |-> {"registered"},
                 jseps |-> {FALSE}, ids |-> {1}, cands |-> {}, txs |-> 0..MaxTx])
    \/ JTransactionTimeout

SpecSession == JInit /\ [][SessionNext]_vars

\* The keepalive: initialization by the dialog and by the host, its failures,
\* the socket events, the 25 s interval and the teardown at unmount.
KeepAliveNext ==
    \/ JInitiateCall
    \/ JCallToken
    \/ JInitJanus
    \/ JSockOpen
    \/ JSockError
    \/ JConnectTimeout
    \/ JSockClose
    \/ JMessage([kinds |-> {"success", "error"},
                 events |-> {},
                 jseps |-> {FALSE}, ids |-> {1}, cands |-> {}, txs |-> 1..MaxTx])
    \/ JTransactionTimeout
    \/ JKeepAlive
    \/ JUnmount

SpecKeepAlive == JInit /\ [][KeepAliveNext]_vars

----

\* The router of inbound frames: on the phone with a call set up, frames of
\* every janus type with and without the id of a request, the user's hangup
\* and the 10 s timers.
DispatchNext ==
    \/ JMessage([kinds |-> {"success", "error", "event", "trickle", "webrtcup",
                            "hangup", "detached"},
                 events |-> {"calling", "accepted", "hangup"},
                 jseps |-> {FALSE}, ids |-> {1}, cands |-> {"cand"},
                 txs |-> 0..MaxTx])
    \/ JHangup
    \/ JTransactionTimeout

SpecDispatch == JCallingInit /\ [][DispatchNext]_vars

\* The stored call state during a call: makeCall, the SIP events, the
\* hangup, the refresh effect with its interval, and the clock.
RefreshNext ==
    \/ JMakeCall
    \/ JUserMedia
    \/ JLocalDescription
    \/ JMessage([kinds |-> {"success", "error", "event"},
                 events |-> {"calling", "accepted", "hangup"},
                 jseps |-> {FALSE}, ids |-> {1}, cands |-> {}, txs |-> 0..MaxTx])
    \/ JHangup
    \/ JRefreshEffect
    \/ JRefreshTick
    \/ JClock

SpecRefresh == JRegisteredInit /\ [][RefreshNext]_vars

\* The refresh of the stored call state in a call that has been set up: the
\* SIP events that end the call or remove the stored state, the hangup and
\* its reply, the refresh effect with its interval, and the clock.
RefreshTickNext ==
    \/ JMessage([kinds |-> {"success", "event"},
                 events |-> {"accepted", "hangup", "registration_failed"},
                 jseps |-> {FALSE}, ids |-> {1}, cands |-> {}, txs |-> 0..MaxTx])
    \/ JHangup
    \/ JRefreshEffect
    \/ JRefreshTick
    \/ JClock

SpecRefreshTick == JCallingInit /\ [][RefreshTickNext]_vars

\* Tearing down a call that has been set up: the remote description and a
\* trickled candidate, the hangup by either side, the disconnect, their
\* replies, and the unmount.
CleanupNext ==
    \/ JMessage([kinds |-> {"success"}, events |-> {}, jseps |-> {},
                 ids |-> {1}, cands |-> {}, txs |-> 1..MaxTx])
    \/ JMessage([kinds |-> {"event", "trickle"},
                 events |-> {"accepted", "hangup"}, jseps |-> {TRUE},
                 ids |-> {}, cands |-> {"cand"}, txs |-> {0}])
    \/ JRemoteDescription
    \/ JHangup
    \/ JDisconnect
    \/ JUnmount

SpecCleanup == JCallingInit /\ [][CleanupNext]_vars
----
(***************************************************************************)
(*                    THE CLAIMS ABOUT THE CHANNEL                         *)
(***************************************************************************)

IsCloseStep(s) == s.ev.type = "close"

\* The close codes the specification exempts from reconnection.
NormalCloseCodes == {1000, 4000} \cup (4001..4099)

\* C5: when the handler of an action message returns the asynchronous
\* acknowledgement shape, the hook sends at most a non-final 'received'
\* acknowledgment; a terminal result (isFinal = TRUE) for an action id is on
\* the wire only after sendAsyncActionResult was called for it or after a
\* delivery of it whose handler returned the synchronous shape or threw.
C5_AsyncSendsOnlyAck ==
    /\ \A a \in ActionIds :
          ch.nFinal[a] > 0 => (ch.asyncCalled[a] \/ ch.otherReturn[a])
    /\ ch.ev.type = "async" =>
          \A i \in 1..Len(ch.out) :
              ch.out[i] = createActionAckMessage(ch.ev.code, "received")

C5_Witness ==
    /\ ch.ev.type = "async"
    /\ ch.out = << createActionAckMessage(1, "received") >>
    /\ ch.nFinal[1] = 0
    /\ ~ch.asyncCalled[1] /\ ~ch.otherReturn[1]

\* C6: for every action id at most one terminal action-result is ever sent.
C6_AtMostOneFinal ==
    \A a \in ActionIds : ch.nFinal[a] <= 1

\* C7: a close with code 1000, 4000 or 4001..4099 starts no reconnect timer,
\* and the connection state of the (mounted) hook becomes Disconnected.
C7_NoReconnectOnNormalClose ==
    [][ (IsCloseStep(ch') /\ ch'.ev.code \in NormalCloseCodes) =>
            /\ ch'.rtRef = ch.rtRef
            /\ ch'.rtLeaked = ch.rtLeaked
            /\ ch.mounted => ch'.connectionState = "disconnected" ]_vars

C7_Witness ==
    /\ IsCloseStep(ch) /\ ch.ev.code = 4050
    /\ ch.mounted /\ ch.autoReconnect
    /\ ch.connectionState = "disconnected"
    /\ ch.rtRef = 0 /\ ch.rtLeaked = 0

\* C8 as stated: a close with any other code always makes the state
\* Reconnecting and arms the reconnect timer.
C8_AlwaysReconnects ==
    [][ (IsCloseStep(ch') /\ ch'.ev.code \notin NormalCloseCodes) =>
            /\ ch'.connectionState = "reconnecting"
            /\ ch'.rtRef = 1 ]_vars

\* C8 as amended: with autoReconnect enabled and the hook mounted, a close
\* with a code other than 1000, 4000 and 4001..4099 makes the state
\* Reconnecting and arms the reconnect timer; with autoReconnect disabled it
\* makes the state Disconnected and arms nothing; and a reconnect timer that
\* fires on a mounted hook with callId and wsToken runs connect(): a new
\* socket is connecting, or the constructor threw and the state is
\* Disconnected.
C8_ReconnectsWhenEnabled ==
    [][ /\ (IsCloseStep(ch') /\ ch'.ev.code \notin NormalCloseCodes /\ ch.mounted) =>
              IF ch.autoReconnect
              THEN ch'.connectionState = "reconnecting" /\ ch'.rtRef = 1
              ELSE /\ ch'.connectionState = "disconnected"
                   /\ ch'.rtRef = ch.rtRef /\ ch'.rtLeaked = ch.rtLeaked
        /\ (ch'.ev.type = "timer" /\ ch.mounted /\ ch.creds # 0) =>
              \/ /\ ch'.wsRef = ch.nextWs
                 /\ ch'.sock[ch'.wsRef] = "connecting"
                 /\ ch'.connectionState = "connecting"
              \/ /\ ch'.wsRef = 0
                 /\ ch'.lastError
                 /\ ch'.connectionState = "disconnected" ]_vars

C8_Witness ==
    /\ IsCloseStep(ch) /\ ch.ev.code = 1006
    /\ ch.mounted /\ ch.autoReconnect
    /\ ch.connectionState = "reconnecting"
    /\ ch.rtRef = 1

\* The last step was the close event of socket w.
ClosedIn(w) ==
    IsCloseStep(ch') /\ ch.sock[w] # "closed" /\ ch'.sock[w] = "closed"

\* Socket w has been replaced by a later connect(): the hook holds another
\* socket.
Superseded(s, w) == s.wsRef # 0 /\ s.wsRef # w

C22_SupersededCloseStep ==
    \A w \in ChSockets :
        (ClosedIn(w) /\ Superseded(ch, w)) =>
            /\ ch'.connectionState = ch.connectionState
            /\ ch'.pingTimerRef = ch.pingTimerRef
            /\ ch'.pingTimers = ch.pingTimers
            /\ ch'.rtRef = ch.rtRef /\ ch'.rtLeaked = ch.rtLeaked

C22_ConnectedWhileOpen ==
    ch.mounted =>
        /\ ch.connectionState = "connected"
               <=> (ch.wsRef # 0 /\ ch.sock[ch.wsRef] = "open")
        /\ ch.connectionState = "connected" => ch.pingTimerRef = ch.wsRef

\* C22 as stated: the close event of a superseded channel socket changes
\* neither the connection state nor the ping timer of the current socket and
\* arms no reconnect timer; so the state is Connected exactly while the
\* current socket is open, and the current socket's ping timer is then
\* active.
C22_SupersededCloseInert ==
    /\ [][C22_SupersededCloseStep]_vars
    /\ []C22_ConnectedWhileOpen

\* C34: when the channel socket opens (on a mounted hook), a reconnect
\* request is sent if and only if a message was received on an earlier
\* connection of the same call since the last disconnect(), and it carries
\* the id of the message received last; the first connection of a call sends
\* none.  lastFrom is the call for which the stored id was received.
C34_ReconnectOnlyForSameCall ==
    [][ (ch'.ev.type = "open" /\ ch.mounted) =>
            IF ch.lastFrom # 0 /\ ch.lastFrom = ch.creds
            THEN ch'.out = << createReconnectMessage(ch.lastMessageId) >>
            ELSE ch'.out = << >> ]_vars

----
\* The handler of a delivery of action a has completed with the synchronous
\* shape; rr is whether that delivery had requiresResponse set.
SyncDone == ch'.ev.type \in {"sync_ok", "sync_fail"}

SyncDoneRequiresResponse ==
    ch'.pending[ch'.ev.code][TRUE] < ch.pending[ch'.ev.code][TRUE]

SyncResult ==
    createActionResultMessage(ch'.ev.code, ch'.ev.type = "sync_ok",
                              "handler", TRUE)

----
(***************************************************************************)
(*                   THE CLAIMS ABOUT THE JANUS CORE                       *)
(***************************************************************************)

\* The program state of s: s without the record of what the last step did.
Program(s) ==
    [s EXCEPT !.ev = "", !.rx = NoRx, !.hangupInvoked = 0, !.sent = << >>,
              !.rejected = 0, !.ret = "none", !.logged = {},
              !.status = "none", !.settled = NoSettled, !.tick = 0,
              !.frame = NoFrame, !.routes = << >>, !.cleanups = 0]

SentTx == 1..(st.nextTx - 1)

\* C1: every request sent on an open socket is settled at most once, and it
\* is settled exactly when its 10 s timer is no longer armed: an unsettled
\* request still has the timer that will settle it, a settled one has
\* neither a timer nor a registration left, so that neither a second reply
\* nor the timeout can settle it again.
C1_SettledOnce ==
    \A t \in SentTx :
        /\ st.tx[t].settles <= 1
        /\ st.tx[t].timer <=> st.tx[t].settles = 0
        /\ st.tx[t].settles = 1 => t \notin st.transactions

\* The register request was settled by its reply and the hangup request by
\* the timeout that just fired, which let handleHangup end the call.
C1_Witness ==
    /\ st.ev = "timeout"
    /\ st.tx[3].owner = "register" /\ st.tx[3].settles = 1
    /\ st.tx[4].owner = "hangup" /\ st.tx[4].settles = 1
    /\ ~st.tx[4].timer /\ 4 \notin st.transactions
    /\ ~st.inCall

\* C4 as stated: a frame that carries the id of a settled transaction is
\* ignored whatever its type: it reaches no resolver and no event handler and
\* changes no state.
C4_LateFrameIgnored ==
    [][ st'.rx.late =>
            /\ st'.rx.route \notin {"resolver", "sip", "trickle", "hangup"}
            /\ st'.sent = << >>
            /\ Program(st') = Program(st) ]_vars

\* C4 as amended: a frame that carries the id of a settled transaction
\* reaches no resolver and settles nothing again; it is routed by its janus
\* type like a frame without a transaction, and a frame of a type the router
\* has no case for (success, error, ack) changes no state.
C4_LateFrameNotResolved ==
    [][ st'.rx.late =>
            /\ st'.rx.route # "resolver"
            /\ \A t \in TxIds : st'.tx[t].settles = st.tx[t].settles
            /\ st'.rx.route = "none" =>
                   st'.sent = << >> /\ Program(st') = Program(st) ]_vars

\* A reply arrived with the id of a settled transaction and was dropped.
C4_Witness ==
    /\ st.rx.late /\ st.rx.route = "none"
    /\ st.ev = "message"
    /\ \E t \in SentTx : st.tx[t].owner = "hangup" /\ st.tx[t].settles = 1

\* C2 as stated: add-candidate is invoked on a connection in the order the
\* candidates arrived, and at most one invocation per connection is in flight
\* at a time, also while a flush of the pending queue is in progress.
C2_InOrderOneInFlight ==
    /\ \A i, j \in 1..Len(st.addLog) :
           (i < j /\ st.addLog[i].pc = st.addLog[j].pc)
               => st.addLog[i].n < st.addLog[j].n
    /\ \A i, j \in 1..Len(st.adds) :
           st.adds[i].pc = st.adds[j].pc => i = j

\* The numbers of the entries of a sequence of candidates.
Ns(cands) == [i \in 1..Len(cands) |-> cands[i].n]

\* seq occurs in log as one contiguous run.
IsRunOf(seq, log) ==
    \E k \in 0..(Len(log) - Len(seq)) :
        \A i \in 1..Len(seq) : seq[i] = log[k + i]

\* C3: a candidate (null and completed markers included) that arrives while
\* the remote-description flag is false is appended to the pending queue;
\* when setRemoteDescription succeeds the queue is emptied and its entries
\* are handed to addIceCandidate once each, in queue order, one at a time.
C3_QueueAppended ==
    (st'.rx.route = "trickle" /\ ~st.remoteDescriptionSetRef) =>
        /\ Len(st'.pendingCandidatesRef) = Len(st.pendingCandidatesRef) + 1
        /\ SubSeq(st'.pendingCandidatesRef, 1, Len(st.pendingCandidatesRef))
               = st.pendingCandidatesRef
        /\ st'.pendingCandidatesRef[Len(st'.pendingCandidatesRef)].n = st.nextCand

C3_FlushStarts ==
    (st'.ev = "remoteDescription" /\ st'.remoteDescriptionSetRef) =>
        /\ st'.pendingCandidatesRef = << >>
        /\ \E r \in RdIds :
              /\ st.rd[r] # 0 /\ st'.rd[r] = 0
              /\ st'.flushLog[r] \o Ns(st'.flush[r]) = Ns(st.pendingCandidatesRef)

C3_FlushInOrder ==
    /\ st.remoteDescriptionSetRef => st.pendingCandidatesRef = << >>
    /\ \A r \in RdIds :
          /\ IsRunOf(st.flushLog[r] \o Ns(st.flush[r]), st.queuedLog)
          /\ Cardinality({i \in 1..Len(st.adds) : st.adds[i].waiter = r}) <= 1
          /\ \A q \in RdIds \ {r} :
                \A i \in 1..Len(st.flushLog[r]), j \in 1..Len(st.flushLog[q]) :
                    st.flushLog[r][i] # st.flushLog[q][j]

C3_QueuedThenFlushed ==
    /\ []C3_FlushInOrder
    /\ [][C3_QueueAppended /\ C3_FlushStarts]_vars

\* Three entries were queued, a null marker among them, the remote
\* description was set and the flush has handed all three on.
C3_Witness ==
    /\ st.remoteDescriptionSetRef
    /\ \E r \in RdIds : Len(st.flushLog[r]) = 3 /\ st.flush[r] = << >>
    /\ Len(st.addLog) = 2

\* The last step handled a hangup event: the SIP plugin's 'hangup' event or
\* the gateway's 'hangup' message.
HangupEvent(s) ==
    \/ s.rx.route = "hangup"
    \/ s.rx.route = "sip" /\ s.rx.event = "hangup"

Idle(s) == ~s.inCall /\ ~s.calling

\* C9: when a hangup event arrives during a call and the hangup callback is
\* registered, the callback is invoked exactly once for the event, and the
\* call then becomes Idle with the persisted call state deleted.
C9_HangupInvokedOnce ==
    (HangupEvent(st') /\ st.inCall /\ st.onHangupRef) => st'.hangupInvoked = 1

C9_HangupEndsCall ==
    /\ [][C9_HangupInvokedOnce]_vars
    /\ (HangupEvent(st) /\ st.hangupInvoked = 1)
           ~> (Idle(st) /\ ~st.persisted.present)

\* A hangup event has just arrived in a call: the callback ran once and its
\* hangup request is pending, the call still up and its state persisted.
C9_Witness ==
    /\ HangupEvent(st) /\ st.hangupInvoked = 1
    /\ st.inCall /\ st.persisted.present
    /\ \E t \in st.transactions : st.tx[t].owner = "hangup"

InProgress == {"connecting", "create", "attach", "register"}

\* C10 as stated: at most one initJanus sequence is in progress at any time.
C10_OneInitInProgress ==
    Cardinality({w \in JSockets : st.init[w] \in InProgress}) <= 1
(***************************************************************************)
(*        THE CLAIMS ABOUT CALL PHASES, RESTORE, RESUME AND RECOVERY       *)
(***************************************************************************)

\* The number of true values among the indications given.
CountTrue(flags) == Cardinality({i \in DOMAIN flags : flags[i]})

\* C11 as stated: at most one of the calling, inCall and reconnecting
\* indications is true in every reachable state, whatever the order of the
\* signaling events and of makeCall, resume and hangup.
C11_OnePhase ==
    CountTrue(<<st.calling, st.inCall, st.reconnecting>>) <= 1

RcRunning == {"timer", "media", "sdp", "call"}
RcEnded == {"done", "failed", "thrown"}

C13_StaleDiscarded ==
    [][ (st'.ev = "mount" /\ st.persisted.present
            /\ st.now - st.persisted.startedAt > MAX_CALL_AGE) =>
               /\ ~st'.persisted.present
               /\ st'.ret = "nothing"
               /\ ~st'.reconnecting
               /\ ~st'.pendingReconnectRef.present
               /\ st'.nextWs = st.nextWs /\ ~st'.initializingRef ]_vars

\* The phone has just mounted over a stale stored state and dropped it.
C13_Witness ==
    /\ st.ev = "mount" /\ "stale" \in st.logged
    /\ st.now > MAX_CALL_AGE
    /\ ~st.persisted.present /\ st.ret = "nothing" /\ ~st.reconnecting

\* C14: when WebRTCPhone mounts and the stored call state is fresh but has
\* no domain, the stored record is deleted, restore returns nothing and the
\* reconnecting flag is false afterwards; no pending reconnect is kept, no
\* initialization is started then and, as long as no domain is known, no
\* socket is opened and no reconnectCall is scheduled later.
C14_NoDomainStep ==
    (st'.ev = "mount" /\ st.persisted.present /\ ~st.persisted.domain
        /\ st.now - st.persisted.startedAt <= MAX_CALL_AGE) =>
           /\ ~st'.persisted.present
           /\ st'.ret = "nothing"
           /\ ~st'.reconnecting
           /\ ~st'.pendingReconnectRef.present
           /\ st'.nextWs = st.nextWs /\ ~st'.initializingRef

C14_NothingStarted ==
    (st.mounted /\ ~st.telproDomain) =>
        /\ ~st.reconnecting /\ ~st.pendingReconnectRef.present
        /\ st.nextWs = 1 /\ st.nextRc = 1

C14_NoDomainDiscarded ==
    /\ []C14_NothingStarted
    /\ [][C14_NoDomainStep]_vars

\* The phone mounted over a fresh stored state without a domain, and the
\* dialog has been opened since: nothing was started.
C14_Witness ==
    /\ st.ev = "setOpen" /\ st.open
    /\ st.currentCallId /\ ~st.telproDomain /\ ~st.initialized
    /\ st.now <= MAX_CALL_AGE
    /\ ~st.persisted.present /\ ~st.reconnecting /\ st.nextWs = 1

\* C15: a sendMessage call made while the socket is absent or not open
\* rejects at once: the step registers no transaction, arms no timer and
\* writes no frame.
C15_SendFailsFast ==
    [][ st'.rejected > 0 =>
           /\ st'.sent = << >>
           /\ st'.nextTx = st.nextTx
           /\ st'.transactions \subseteq st.transactions
           /\ \A t \in TxIds : st'.tx[t].timer => st.tx[t].timer ]_vars

\* Disconnect was pressed in a call whose socket had closed: the hangup
\* request was rejected at once and the teardown went on.
C15_Witness ==
    /\ st.ev = "disconnect" /\ st.rejected = 1
    /\ st.sock[1] = "closed" /\ st.sent = << >>
    /\ ~st.inCall /\ ~st.open

\* The part of sequence new that follows the prefix old.
Suffix(old, new) == SubSeq(new, Len(old) + 1, Len(new))

\* The numbers in ns, in order, of the frames that carried a real candidate.
RealOf(ns) == SelectSeq(ns, LAMBDA n : st.kindLog[n] = "cand")

\* C16: only real candidates are passed to the native addIceCandidate: a
\* null candidate or a completed marker is skipped, both when it is handled
\* on arrival and when the pending queue is flushed, and the real candidates
\* around it are passed on, in order, while a connection exists.
C16_OnlyRealPassed ==
    \A i \in 1..Len(st.addLog) : st.addLog[i].kind = "cand"

C16_ArrivalStep ==
    (st'.rx.route = "trickle" /\ st.remoteDescriptionSetRef) =>
        Ns(Suffix(st.addLog, st'.addLog)) =
            IF st'.rx.cand = "cand" /\ st.pcRef # 0
            THEN <<st.nextCand>> ELSE << >>

C16_FlushStep ==
    \A r \in RdIds :
        st'.flushLog[r] # st.flushLog[r] =>
            Ns(Suffix(st.addLog, st'.addLog)) =
                IF st'.pcRef # 0
                THEN RealOf(Suffix(st.flushLog[r], st'.flushLog[r]))
                ELSE << >>

C16_NullNeverAdded ==
    /\ []C16_OnlyRealPassed
    /\ [][C16_ArrivalStep /\ C16_FlushStep]_vars

\* A queue of a real candidate, a null or completed marker and another real
\* candidate has been flushed: both real ones were passed to the connection,
\* the marker was not.
C16_Witness ==
    /\ \E r \in RdIds :
          /\ Len(st.flushLog[r]) = 3 /\ st.flush[r] = << >>
          /\ st.kindLog[st.flushLog[r][1]] = "cand"
          /\ st.kindLog[st.flushLog[r][2]] \in {"null", "completed"}
          /\ st.kindLog[st.flushLog[r][3]] = "cand"
    /\ Len(st.addLog) = 2 /\ st.adds = << >>

\* C17 as stated: at most one peer connection and at most one local media
\* stream created by makeCall or reconnectCall are unreleased at any time,
\* also when runs of makeCall and reconnectCall overlap.
C17_OneUnreleased ==
    /\ Cardinality({k \in Pcs : st.pc[k] = "live"}) <= 1
    /\ Cardinality({k \in Pcs : st.stream[k] = "live"}) <= 1

\* The failures after which the phone is left without a session and with
\* no initJanus run in progress: every run so far failed, or the run
\* completed and the gateway has just refused the registration.
InitFailed(s) ==
    \/ /\ s.rx.event = "registration_failed"
       /\ \E w \in JSockets : s.init[w] = "done"
       /\ \A w \in JSockets : s.init[w] \notin InProgress
    \/ /\ \E w \in JSockets : s.init[w] = "failed"
       /\ \A w \in JSockets : s.init[w] \in {"none", "failed"}

\* C19 as stated: after a failure the phone is back in a state from which a
\* fresh initialization can open a socket again (and then register and
\* call): an initJanus call that follows the failure opens a socket.
C19_FreshInitOpensSocket ==
    [][ (InitFailed(st) /\ ~st.registered /\ st'.ev = "initJanus") =>
            /\ st'.nextWs = st.nextWs + 1
            /\ st'.sock[st.nextWs] = "connecting" ]_vars

(***************************************************************************)
(*              THE CLAIMS ABOUT THE CHANNEL'S LIFECYCLE                   *)
(***************************************************************************)

\* C18 as stated: after disconnect() the channel stays Disconnected until
\* connect() is called again (by the host or by the effect on callId and
\* wsToken): the step that follows disconnect() on a mounted hook, unless it
\* is such a call, is no reconnect timer firing, opens no socket, arms no
\* reconnect timer and leaves the state Disconnected, whatever state the
\* socket was in and whatever code its close event reports.
C18_StaysDisconnected ==
    [][ (ch.ev.type = "disconnect" /\ ch.mounted
            /\ ch'.ev.type \notin {"connect", "creds", "unmount"}) =>
               /\ ch'.ev.type # "timer"
               /\ ch'.nextWs = ch.nextWs
               /\ ch'.rtRef # 1
               /\ ch'.connectionState = "disconnected" ]_vars

\* The edges of the connection lifecycle the specification draws.
LifecycleEdges ==
    { <<"disconnected", "connecting">>, <<"connecting", "connected">>,
      <<"connected", "reconnecting">>, <<"reconnecting", "connecting">>,
      <<"connected", "disconnected">> }

\* C20 as stated: the connection state changes only along the edges
\* Disconnected to Connecting, Connecting to Connected, Connected to
\* Reconnecting, Reconnecting to Connecting and Connected to Disconnected.
C20_OnlyLifecycleEdges ==
    [][ ch'.connectionState # ch.connectionState =>
            <<ch.connectionState, ch'.connectionState>> \in LifecycleEdges ]_vars
(***************************************************************************)
(*          RESTORE, RESOURCES AND KEEPALIVE: FURTHER CLAIMS               *)
(***************************************************************************)

\* C21 as stated: once restoreFromPersistedState has set the reconnecting
\* flag, the flag eventually becomes false without any user action, also
\* when initialization fails or a 'registration_failed' event arrives.
C21_ReconnectingEnds == st.reconnecting ~> ~st.reconnecting

----
\* C23 as stated: whenever the remote-description flag is true, a peer
\* connection exists and a remote description was applied successfully to
\* that same connection, also when setRemoteDescription completes after
\* cleanupCall or after a new call was started.
C23_FlagMeansApplied ==
    st.remoteDescriptionSetRef =>
        st.pcRef # 0 /\ st.pcRef \in st.rdApplied

----
\* C24 as stated: a remote candidate that arrived while one peer connection
\* was the current one is never handed to another, later peer connection;
\* a queue flush that is still running when the call is cleaned up or a new
\* connection is created applies no further candidate.
C24_NoCandidateCrossesCalls ==
    \A i \in 1..Len(st.addLog) :
        LET arrivedFor == st.pcLog[st.addLog[i].n]
        IN  arrivedFor # 0 => st.addLog[i].pc = arrivedFor

----
\* C25 as stated: whenever inCall is true a live peer connection exists; no
\* failure path releases the call's resources and leaves inCall true.
C25_InCallHasConnection ==
    st.inCall => (st.pcRef # 0 /\ st.pc[st.pcRef] = "live")

----
\* The reconnectCall runs that have started.
RcStarted == {r \in Resumes : st.rc[r].phase \notin {"none", "timer"}}

\* C26 as stated: for one restored call state reconnectCall is executed at
\* most once; a second 'registered' event that arrives before the first run
\* has completed starts no second run, so that no second connection is
\* created and no second call request with the stored call id is sent.
C26_ResumeOnce ==
    /\ Cardinality(RcStarted) <= 1
    /\ Cardinality({t \in TxIds : st.tx[t].owner = "recall"}) <= 1

----
\* Run r of reconnectCall failed in the last step: getUserMedia, the offer or
\* the call request failed, or the call request timed out.
RcFailedIn(r) ==
    st.rc[r].phase \in {"media", "sdp", "call"} /\ st'.rc[r].phase = "failed"

\* C27 as stated: when a step of reconnectCall fails (getUserMedia, the
\* offer, the call request failing or timing out), the run completes with
\* the stored call state deleted, the connection and the stream the run
\* acquired released, pcRef and localStreamRef null and the candidate queue
\* empty, the status 'Reconnect failed' reported and calling not set by the
\* run.
C27_FailedResumeStep ==
    \A r \in Resumes :
        RcFailedIn(r) =>
            /\ ~st'.persisted.present
            /\ st'.pc[MaxCalls + r] # "live"
            /\ st'.stream[MaxCalls + r] # "live"
            /\ st'.pcRef = 0 /\ st'.localStreamRef = 0
            /\ st'.pendingCandidatesRef = << >>
            /\ st'.status = "Reconnect failed"
            /\ st'.calling = st.calling

C27_FailedResumeReleases == [][C27_FailedResumeStep]_vars

----
InitOwners == {"create", "attach", "register"}

\* The promise the last step settled was resolved, and it was that of the
\* request `owner` of the initJanus run on socket w.
ResolvedIn(owner, w) ==
    /\ st'.settled.tx # 0 /\ st'.settled.ok
    /\ st.tx[st'.settled.tx].owner = owner
    /\ st.tx[st'.settled.tx].task = w

\* The requests of initJanus a step writes: create after the open event,
\* attach after the create request was resolved, register after the attach
\* request was resolved, with the ids stored by then (0: the reply carried
\* no data.id, nothing is stored and the request carries no id).
C28_RequestsInOrder ==
    /\ Cardinality({i \in 1..Len(st'.sent) : st'.sent[i].janus \in InitOwners}) <= 1
    /\ \A i \in 1..Len(st'.sent) :
          LET m == st'.sent[i]
              w == st'.tx[m.tx].task
          IN  /\ m.janus = "create" =>
                    st'.ev = "open" /\ st.init[w] = "connecting"
              /\ m.janus = "attach" =>
                    /\ st.init[w] = "create" /\ ResolvedIn("create", w)
                    /\ m.session_id = st'.sessionIdRef
              /\ m.janus = "register" =>
                    /\ st.init[w] = "attach" /\ ResolvedIn("attach", w)
                    /\ m.session_id = st'.sessionIdRef
                    /\ m.handle_id = st'.handleIdRef

\* A failing step of initJanus: the rejected request is that of a run, or
\* the run's catch block ran.  The ids in the refs are those of before the
\* step, but for the id of a reply the step itself resolved before the next
\* request was rejected.
C28_FailureAborts ==
    \A w \in JSockets :
        LET rejected == /\ st'.settled.tx # 0 /\ ~st'.settled.ok
                        /\ st.tx[st'.settled.tx].owner \in InitOwners
                        /\ st.tx[st'.settled.tx].task = w
            caught == st.init[w] \in {"connecting", "create", "attach", "register"}
                          /\ st'.init[w] = "failed"
        IN  /\ rejected => caught
            /\ caught =>
                /\ \A i \in 1..Len(st'.sent) : st'.sent[i].janus \notin InitOwners
                /\ ~st'.initializingRef
                /\ ~ResolvedIn("create", w) => st'.sessionIdRef = st.sessionIdRef
                /\ ~ResolvedIn("attach", w) => st'.handleIdRef = st.handleIdRef
                /\ st'.wsRef = st.wsRef

\* C28: initJanus sends create, attach and register in that order, each only
\* after the request before it was resolved, attach with the stored session
\* id and register with the stored session and handle ids; when a step
\* fails no later request is sent, initializingRef is cleared, and the ids
\* and the socket obtained so far stay in their refs.
C28_InitSequential ==
    [][C28_RequestsInOrder /\ C28_FailureAborts]_vars

\* The attach request was answered with an error: the run has failed with
\* the session id still stored and no handle id.
C28_Witness ==
    /\ st.ev = "message" /\ st.settled.tx # 0 /\ ~st.settled.ok
    /\ st.tx[st.settled.tx].owner = "attach"
    /\ st.sent = << >>
    /\ \E w \in JSockets : st.init[w] = "failed"
    /\ st.sessionIdRef # 0 /\ st.handleIdRef = 0 /\ ~st.initializingRef

----
(***************************************************************************)
(*                     THE CLAIMS ABOUT THE KEEPALIVE                      *)
(***************************************************************************)

\* Socket w closes in this step.
JClosedIn(w) ==
    /\ st'.ev = "close"
    /\ st.sock[w] \in {"open", "closing"} /\ st'.sock[w] = "closed"

KeepAliveFrame(id) ==
    [janus |-> "keepalive", tx |-> 0, session_id |-> id, handle_id |-> 0]

\* A keepalive interval is started only by the step that resolves a create
\* request, and a tick of an interval writes one keepalive frame with the
\* stored session id when the current socket is open, writes nothing
\* otherwise, and registers no transaction.
C29_TickStep ==
    /\ \A k \in st'.kaTimers \ st.kaTimers :
          /\ st'.settled.tx # 0 /\ st'.settled.ok
          /\ st.tx[st'.settled.tx].owner = "create"
          /\ st.tx[st'.settled.tx].task = k
    /\ st'.ev = "keepalive" =>
          /\ st'.tick \in st.kaTimers
          /\ st'.sent = IF canSend(st) THEN << KeepAliveFrame(st.sessionIdRef) >>
                        ELSE << >>
          /\ st'.transactions = st.transactions
          /\ st'.nextTx = st.nextTx /\ st'.tx = st.tx

\* Once socket w, with the handlers of initJanus, has closed, the interval
\* started on it is cleared and keepAliveRef is null; and an interval whose
\* socket has closed sends nothing any more.
C29_CloseStep ==
    /\ \A w \in JSockets :
          (JClosedIn(w) /\ w \in st.handlers) =>
              st'.keepAliveRef = 0 /\ w \notin st'.kaTimers
    /\ (st'.ev = "keepalive" /\ st.sock[st'.tick] = "closed") =>
          st'.sent = << >>

\* C29: after a successful create a keepalive carrying the session id is
\* sent at each tick of the 25 s interval only while the socket is open, a
\* keepalive registers no transaction, and once the socket has closed its
\* keepalive interval is cleared and sends no further keepalive.
C29_KeepAliveWhileOpen ==
    [][C29_TickStep /\ C29_CloseStep]_vars

\* C30: at most one keepalive interval is active at any time, and the close
\* of a socket other than the current one leaves the interval of the
\* current session running.
C30_OneKeepAlive ==
    /\ [](Cardinality(st.kaTimers) <= 1)
    /\ [][ \A w \in JSockets :
              (JClosedIn(w) /\ w # st.wsRef /\ st.wsRef \in st.kaTimers) =>
                  st.wsRef \in st'.kaTimers ]_vars

----
(***************************************************************************)
(*                 THE CLAIMS ABOUT THE SESSION IDENTIFIERS                *)
(***************************************************************************)

\* A step in which cleanupJanus ran: the unmount, a disconnect, or the
\* settling of the hangup request handleDisconnect awaits.
TeardownStep ==
    \/ st'.ev \in {"unmount", "disconnect"} /\ st'.wsRef = 0
    \/ /\ st'.settled.tx # 0
       /\ st.tx[st'.settled.tx].owner = "disconnect"

\* A step in which the reply to a create (attach) request was resolved: the
\* run stores the id of the reply.
StoresId(owner) ==
    /\ st'.settled.tx # 0 /\ st'.settled.ok
    /\ st.tx[st'.settled.tx].owner = owner

\* C31 as stated: after the gateway socket has closed, and after teardown,
\* the session id and the handle id are both null.
C31_NullAfterCloseOrTeardown ==
    [][ (st'.ev = "close" \/ TeardownStep) =>
            st'.sessionIdRef = 0 /\ st'.handleIdRef = 0 ]_vars

\* C31 as amended: after teardown (cleanupJanus) the session id and the
\* handle id are both null, with the socket ref null and no resolver
\* registered; the close of the socket alone nulls neither of them.
C31_NullAfterTeardown ==
    [][ /\ TeardownStep =>
              /\ st'.sessionIdRef = 0 /\ st'.handleIdRef = 0
              /\ st'.wsRef = 0 /\ st'.transactions = {}
        /\ (st'.ev = "close" /\ st.sessionIdRef # 0) => st'.sessionIdRef # 0 ]_vars

\* handleDisconnect has torn the registered phone down after its hangup
\* request was settled.
C31_Witness ==
    /\ st.settled.tx # 0 /\ st.tx[st.settled.tx].owner = "disconnect"
    /\ st.sessionIdRef = 0 /\ st.handleIdRef = 0
    /\ st.wsRef = 0 /\ ~st.initializedRef

\* C32: a socket close leaves the session id and the handle id as they
\* are; the session id becomes null only in a teardown step, the handle id
\* only in a teardown step or by a 'detached' frame (a step that resolves a
\* create or attach request stores the id of the reply, whatever it is).
C32_CloseKeepsIds ==
    [][ /\ st'.ev = "close" =>
              /\ st'.sessionIdRef = st.sessionIdRef
              /\ st'.handleIdRef = st.handleIdRef
        /\ (st.sessionIdRef # 0 /\ st'.sessionIdRef = 0) =>
              TeardownStep \/ StoresId("create")
        /\ (st.handleIdRef # 0 /\ st'.handleIdRef = 0) =>
              \/ TeardownStep \/ StoresId("attach")
              \/ st'.rx.route = "detached" ]_vars

\* The socket of the registered phone has closed and both ids are still
\* stored.
C32_Witness ==
    /\ st.ev = "close"
    /\ st.wsRef # 0 /\ st.sock[st.wsRef] = "closed"
    /\ ~st.connected /\ ~st.registered
    /\ st.sessionIdRef # 0 /\ st.handleIdRef # 0

----
(***************************************************************************)
(*                    THE CLAIMS ABOUT THE FRAME ROUTER                    *)
(***************************************************************************)

\* C33: an inbound frame is handled by exactly one path: a frame whose
\* transaction has a registered resolver goes to that resolver only, which
\* settles that transaction, and to no event handler; every other frame
\* goes to the one handler its janus type names (SIP event, trickle,
\* link-up, hangup, detached) or to none, and invokes no resolver.
C33_OnePath ==
    [][ st'.ev = "message" =>
          /\ Len(st'.routes) <= 1
          /\ st'.frame.registered =>
                /\ st'.routes = << "resolver" >>
                /\ st'.settled.tx \in st.transactions
          /\ ~st'.frame.registered =>
                /\ st'.routes = IF st'.frame.kind = "none" THEN << >>
                                ELSE << st'.frame.kind >>
                /\ st'.settled.tx = 0
                /\ st.transactions \subseteq st'.transactions ]_vars

\* A frame with the id of a pending request was handed to its resolver and
\* settled the request; no event handler ran.
C33_Witness ==
    /\ st.ev = "message"
    /\ st.frame.registered /\ st.routes = << "resolver" >>
    /\ st.settled.tx # 0 /\ st.settled.tx \notin st.transactions
    /\ st.hangupInvoked = 0

----

\* ------------------------------------------------------------------------
\* The stored call state and its refresh.

\* The call is being set up or is established.
ActiveCall(s) == s.inCall \/ s.calling

\* A step of the refresh effect or of its interval.
RefreshStep == st'.ev \in {"refreshEffect", "refreshTick"}

\* C36: while the call is calling or in-call and a stored call state
\* exists, no step discards the stored state as stale, and once the
\* refresh effect has set its interval the stored state a step leaves
\* behind is not older than MAX_CALL_AGE.
C36_FreshWhileActive ==
    [][ (ActiveCall(st) /\ ActiveCall(st') /\ st.persisted.present) =>
            /\ "stale" \notin st'.logged
            /\ (st'.rfInterval /\ st'.persisted.present) => ~stale(st') ]_vars

\* The refresh step updates the timestamp: a tick of the interval, or a run
\* of the effect in a call.
RefreshUpdates == st'.ev = "refreshTick" \/ ActiveCall(st)

\* C37: a refresh step never creates a stored call state: with none stored
\* none is stored afterwards, a stale one is removed, and a fresh one is
\* written back with only startedAt changed, to the present time.
C37_RefreshNeverCreates ==
    [][ RefreshStep =>
            /\ ~st.persisted.present => ~st'.persisted.present
            /\ st'.persisted =
                  IF ~RefreshUpdates THEN st.persisted
                  ELSE IF st.persisted.present /\ ~stale(st)
                       THEN [st.persisted EXCEPT !.startedAt = st.now]
                       ELSE NoPersisted ]_vars

\* A tick of the interval after the hangup removed the stored state, before
\* the effect has cleared the interval.
C37_Witness ==
    /\ st.ev = "refreshTick"
    /\ ~st.persisted.present
    /\ ~ActiveCall(st)
    /\ st.rfInterval
    /\ "updated" \notin st.logged

\* ------------------------------------------------------------------------
\* Restoring the stored call state.

\* The call data of the store and the initialized flag.
CallData(s) ==
    [endpointId |-> s.endpointId, currentCallId |-> s.currentCallId,
     currentWsToken |-> s.currentWsToken, telproDomain |-> s.telproDomain,
     initialized |-> s.initialized]

\* C38: when the restore at mount returns nothing, the call data and the
\* initialized flag of the store are what they were before the mount.
C38_NothingRestoredNothingWritten ==
    [][ (st'.ev = "mount" /\ st'.ret = "nothing") =>
            CallData(st') = CallData(st) ]_vars

\* ------------------------------------------------------------------------
\* The cleanup of a call.

\* C39: a step that runs the call cleanup routine, once or twice, ends with
\* no peer connection and no local stream referenced, an empty candidate
\* queue and the remote-description flag false; it closes the connection and
\* stops the stream that were referenced and touches no other, so on an idle
\* call and on a second run it changes nothing.
C39_CleanupIdempotent ==
    [][ st'.cleanups > 0 =>
            /\ st'.pcRef = 0 /\ st'.localStreamRef = 0
            /\ st'.pendingCandidatesRef = << >>
            /\ ~st'.remoteDescriptionSetRef
            /\ \A k \in Pcs :
                 /\ st'.pc[k] = IF k = st.pcRef THEN "closed" ELSE st.pc[k]
                 /\ st'.stream[k] = IF k = st.localStreamRef THEN "stopped"
                                    ELSE st.stream[k] ]_vars

\* The disconnect has run the routine twice in one step, on a call with a
\* live connection and the remote description applied.
C39_Witness ==
    /\ st.cleanups = 2
    /\ st.pc[1] = "closed" /\ st.stream[1] = "stopped"
    /\ 1 \in st.rdApplied
    /\ st.pcRef = 0 /\ ~st.remoteDescriptionSetRef

\* The routine has run on an idle call: the unmount after the hangup.
C39_IdleWitness ==
    /\ st.ev = "unmount" /\ st.cleanups = 1
    /\ st.pc[1] = "closed" /\ ~st.currentCallId

\* The hangup request of handleHangup has been answered, has timed out or
\* was rejected at once, and handleHangup ran to its end.
HangupEnds ==
    \/ st'.settled.tx # 0 /\ st.tx[st'.settled.tx].owner = "hangup"
    \/ st'.hangupInvoked > 0 /\ st'.rejected > 0

\* C40 as stated: a hangup leaves the remote-description flag as it was.
C40_HangupKeepsFlag ==
    [][ HangupEnds =>
            st'.remoteDescriptionSetRef = st.remoteDescriptionSetRef ]_vars

\* C40 as amended: a hangup resets the remote-description flag to false, and
\* the flag goes from true to false only in a step that runs the cleanup
\* routine (hangup, disconnect, unmount).
C40_HangupResetsFlag ==
    [][ /\ HangupEnds => ~st'.remoteDescriptionSetRef
        /\ (st.remoteDescriptionSetRef /\ ~st'.remoteDescriptionSetRef) =>
               st'.cleanups > 0 ]_vars

\* The hangup of a call whose remote description had been applied has
\* ended, and the flag is false.
C40_Witness ==
    /\ st.settled.tx # 0 /\ st.tx[st.settled.tx].owner = "hangup"
    /\ st.cleanups = 1
    /\ 1 \in st.rdApplied
    /\ ~st.remoteDescriptionSetRef
    /\ st.mounted /\ st.wsRef # 0
====
